---- MODULE Spec2Model ----
(***************************************************************************)
(* Model of the asynchronous coordination core of tk-ai-extension:         *)
(*   - frontend_delegation.py : request/response correlation over the      *)
(*     frontend WebSocket (delegate_to_frontend / handle_tool_response);   *)
(*   - client_manager.py      : ClaudeClientManager, one SDK client per    *)
(*     notebook path;                                                      *)
(*   - execute_cell_async.py / execute_all_cells.py : the execution        *)
(*     registries and their background tasks.                              *)
(* Every coroutine is cut at its await points: one action is the code that *)
(* runs between two awaits on the asyncio event loop.                      *)
(***************************************************************************)
EXTENDS Integers, Sequences, FiniteSets, TLC

(* ---------------- bounds ---------------- *)
MaxCalls == 2

(***************************************************************************)
(* Part 1. frontend_delegation.py                                          *)
(***************************************************************************)
VARIABLES
    active_websocket,   \* _active_websocket: "none" or "ws"
    pending_requests,   \* keys of _pending_requests (request ids)
    futures,            \* request id -> the asyncio future stored for it
    calls,              \* request id -> position of its delegate_to_frontend call
    nextCall,           \* next fresh uuid4 (ids are never reused)
    sent,               \* request ids written to the WebSocket as tool_request
    unknown_log,        \* ids for which "unknown request" was logged
    invalid_state       \* TRUE once set_result was called on a done future

delegVars == <<active_websocket, pending_requests, futures, calls, nextCall,
               sent, unknown_log, invalid_state>>

CallIds == 1..MaxCalls
\* id 0 stands for a request id that no delegate_to_frontend call ever generated
BogusId == 0
Results == {"r1", "r2"}

NoRet == [kind |-> "none", value |-> "-"]
NoFuture == [state |-> "absent", value |-> "-", sets |-> 0]
IdleCall == [pc |-> "idle", ret |-> NoRet, raised |-> FALSE, expired |-> FALSE]

DelegInit ==
    /\ active_websocket = "none"
    /\ pending_requests = {}
    /\ futures = [c \in CallIds |-> NoFuture]
    /\ calls = [c \in CallIds |-> IdleCall]
    /\ nextCall = 1
    /\ sent = {}
    /\ unknown_log = {}
    /\ invalid_state = FALSE

set_active_websocket ==
    /\ active_websocket = "none"
    /\ active_websocket' = "ws"
    /\ UNCHANGED <<pending_requests, futures, calls, nextCall, sent,
                   unknown_log, invalid_state>>

clear_active_websocket ==
    /\ active_websocket = "ws"
    /\ active_websocket' = "none"
    /\ UNCHANGED <<pending_requests, futures, calls, nextCall, sent,
                   unknown_log, invalid_state>>

\* frontend_delegation.py:76  "if _active_websocket is None"
NoPeerMut(ws) == FALSE
NoActivePeer(ws) == ws = "none"

\* frontend_delegation.py:49  "if not future.done()"
FutureDoneMut(f) == FALSE
FutureDone(f) == f.state # "pending"

\* frontend_delegation.py:48  "_pending_requests.pop(request_id)"
ResponsePopMut(P, id) == P
ResponsePop(P, id) == P \ {id}

\* frontend_delegation.py:102  "_pending_requests.pop(request_id, None)"
TimeoutPopMut(P, id) == P
TimeoutPop(P, id) == P \ {id}

\* frontend_delegation.py:109  "_pending_requests.pop(request_id, None)"
ErrorPop(P, id) == P \ {id}

(* FrontendDelegatedTool.execute -> delegate_to_frontend, up to the first   *)
(* await.  With no peer delegate_to_frontend raises RuntimeError (line 77), *)
(* which FrontendDelegatedTool.execute turns into a failure result.         *)
delegate_to_frontend ==
    /\ nextCall <= MaxCalls
    /\ nextCall' = nextCall + 1
    /\ IF NoActivePeer(active_websocket)
       THEN /\ calls' = [calls EXCEPT ![nextCall] =
                           [pc |-> "done",
                            ret |-> [kind |-> "no_peer", value |-> "-"],
                            raised |-> TRUE, expired |-> FALSE]]
            /\ UNCHANGED <<pending_requests, futures>>
       ELSE /\ futures' = [futures EXCEPT ![nextCall] =
                           [state |-> "pending", value |-> "-", sets |-> 0]]
            /\ pending_requests' = pending_requests \cup {nextCall}
            /\ calls' = [calls EXCEPT ![nextCall].pc = "send"]
    /\ UNCHANGED <<active_websocket, sent, unknown_log, invalid_state>>

(* "await _active_websocket.write_message(...)" completes or raises         *)
(* (lines 89-95, 108-114).                                                  *)
write_message(c, ok) ==
    /\ calls[c].pc = "send"
    /\ IF ok
       THEN /\ sent' = sent \cup {c}
            /\ calls' = [calls EXCEPT ![c].pc = "wait"]
            /\ UNCHANGED pending_requests
       ELSE /\ pending_requests' = ErrorPop(pending_requests, c)
            /\ calls' = [calls EXCEPT ![c].pc = "done",
                                      ![c].ret = [kind |-> "send_error", value |-> "-"]]
            /\ UNCHANGED sent
    /\ UNCHANGED <<active_websocket, futures, nextCall, unknown_log, invalid_state>>

(* "result = await asyncio.wait_for(future, ...); return result" when the   *)
(* future holds a result (lines 98-99).                                     *)
wait_for_result(c) ==
    /\ calls[c].pc = "wait"
    /\ futures[c].state = "result"
    /\ calls' = [calls EXCEPT ![c].pc = "done",
                              ![c].ret = [kind |-> "result", value |-> futures[c].value]]
    /\ UNCHANGED <<active_websocket, pending_requests, futures, nextCall, sent,
                   unknown_log, invalid_state>>

(* The timer of asyncio.wait_for expires: a still pending future is         *)
(* cancelled and TimeoutError is on its way to the waiting coroutine.  When *)
(* the timer fires after set_result but before the coroutine resumed, the   *)
(* outcome depends on the interpreter (result returned up to 3.11, see      *)
(* wait_for_result; TimeoutError from 3.12): both are kept.                 *)
wait_for_timeout(c) ==
    /\ calls[c].pc = "wait"
    /\ calls' = [calls EXCEPT ![c].pc = "timedout", ![c].expired = TRUE]
    /\ futures' = IF futures[c].state = "pending"
                  THEN [futures EXCEPT ![c].state = "cancelled"]
                  ELSE futures
    /\ UNCHANGED <<active_websocket, pending_requests, nextCall, sent,
                   unknown_log, invalid_state>>

(* "except asyncio.TimeoutError:" lines 101-107.                            *)
timeout_handler(c) ==
    /\ calls[c].pc = "timedout"
    /\ pending_requests' = TimeoutPop(pending_requests, c)
    /\ calls' = [calls EXCEPT ![c].pc = "done",
                              ![c].ret = [kind |-> "timeout", value |-> "-"]]
    /\ UNCHANGED <<active_websocket, futures, nextCall, sent, unknown_log,
                   invalid_state>>

(* handle_tool_response(request_id, result), lines 42-53.                   *)
handle_tool_response(id, v) ==
    /\ IF id \in pending_requests
       THEN /\ pending_requests' = ResponsePop(pending_requests, id)
            /\ IF ~FutureDone(futures[id])
               THEN /\ futures' = [futures EXCEPT
                                     ![id].state = "result",
                                     ![id].value = IF futures[id].state = "pending"
                                                   THEN v ELSE @,
                                     ![id].sets = @ + 1]
                    \* set_result on a future that is already done raises
                    \* InvalidStateError
                    /\ invalid_state' = (invalid_state \/ futures[id].state # "pending")
               ELSE UNCHANGED <<futures, invalid_state>>
            /\ UNCHANGED unknown_log
       ELSE /\ unknown_log' = unknown_log \cup {id}
            /\ UNCHANGED <<pending_requests, futures, invalid_state>>
    /\ UNCHANGED <<active_websocket, calls, nextCall, sent>>



(* The task running delegate_to_frontend is cancelled while it is suspended *)
(* in write_message (line 89) or in wait_for (line 98).  CancelledError is   *)
(* neither asyncio.TimeoutError nor an Exception, so neither handler (lines  *)
(* 101-114) runs; wait_for cancels the future it was waiting for.            *)
cancel_call(c) ==
    /\ calls[c].pc \in {"send", "wait"}
    /\ calls' = [calls EXCEPT ![c].pc = "cancelled"]
    /\ futures' = IF calls[c].pc = "wait" /\ futures[c].state = "pending"
                  THEN [futures EXCEPT ![c].state = "cancelled"]
                  ELSE futures
    /\ UNCHANGED <<active_websocket, pending_requests, nextCall, sent,
                   unknown_log, invalid_state>>

(* ---------------- properties of frontend_delegation.py ---------------- *)
Registered(c) == futures[c].state # "absent"

\* C4 (as stated): every delegate_to_frontend call that registered a future
\* ends with exactly one outcome, which is either the result given by a
\* matching handle_tool_response or the timeout failure, and its future is
\* never given a result twice.
C4_AsStated ==
    /\ ~invalid_state
    /\ \A c \in CallIds : Registered(c) =>
         /\ futures[c].sets <= 1
         /\ (calls[c].pc = "done") = (calls[c].ret.kind # "none")
         /\ calls[c].pc = "done" =>
              /\ calls[c].ret.kind \in {"result", "timeout"}
              /\ calls[c].ret.kind = "result" =>
                   (futures[c].state = "result" /\ calls[c].ret.value = futures[c].value)

\* C4 (amended): as C4, with the third outcome the code has: the failure
\* result returned when writing the request to the WebSocket raised.
C4_ResolvedOnce ==
    /\ ~invalid_state
    /\ \A c \in CallIds : Registered(c) =>
         /\ futures[c].sets <= 1
         /\ (calls[c].pc = "done") = (calls[c].ret.kind # "none")
         /\ calls[c].pc = "done" =>
              /\ calls[c].ret.kind \in {"result", "timeout", "send_error"}
              /\ calls[c].ret.kind = "result" =>
                   (futures[c].state = "result" /\ calls[c].ret.value = futures[c].value)
              /\ calls[c].ret.kind = "send_error" => c \notin sent
              /\ calls[c].ret.kind = "timeout" => calls[c].expired

\* C4 witness: one call returned the response's result although a duplicate
\* response for it arrived, another call ended by timeout.
C4_Witness ==
    \E c, d \in CallIds :
        /\ calls[c].ret.kind = "result" /\ c \in unknown_log
        /\ calls[d].ret.kind = "timeout"

\* C5: a request is out of _pending_requests once a response resolved it or
\* the timeout handler ran, and a handle_tool_response for an id that is not
\* pending (late, duplicate or never issued) raises nothing, resolves nothing
\* and changes neither _pending_requests nor any other request.
C5_Removed ==
    \A c \in CallIds :
        (futures[c].state = "result" \/ calls[c].ret.kind = "timeout")
            => c \notin pending_requests

C5_LateNoop ==
    unknown_log' # unknown_log =>
        /\ pending_requests' = pending_requests
        /\ futures' = futures
        /\ calls' = calls
        /\ invalid_state' = invalid_state /\ ~invalid_state

C5_RemovedOnFirstResolution == []C5_Removed /\ [][C5_LateNoop]_delegVars

\* C5 witness: a late response for a timed-out id and a response for an id
\* that never existed were both dropped while another request is pending.
C5_Witness ==
    \E c, d \in CallIds :
        /\ calls[c].ret.kind = "timeout" /\ c \in unknown_log
        /\ BogusId \in unknown_log
        /\ d \in pending_requests

C7_Step ==
    (nextCall' # nextCall /\ active_websocket = "none") =>
        /\ pending_requests' = pending_requests
        /\ futures' = futures
        /\ sent' = sent
        /\ calls'[nextCall].pc = "done"
        /\ calls'[nextCall].ret.kind = "no_peer"

C7_State ==
    \A c \in CallIds : calls[c].ret.kind = "no_peer" =>
        /\ c \notin sent /\ c \notin pending_requests /\ ~Registered(c)
        /\ calls[c].pc = "done" /\ ~calls[c].expired

C7_NoActivePeer == []C7_State /\ [][C7_Step]_delegVars

\* C7 witness: a call failed for lack of a peer while an earlier request,
\* sent when a peer was attached, is still pending.
C7_Witness ==
    \E c, d \in CallIds :
        /\ calls[c].ret.kind = "no_peer"
        /\ d \in pending_requests /\ d \in sent


\* a delegate_to_frontend call that has not ended yet
InProgress(c) == calls[c].pc \in {"send", "wait", "timedout"}

\* C37: every id in _pending_requests belongs to a delegate_to_frontend call
\* that has not ended: once a call has ended - by response, timeout, failed
\* transmission or cancellation of its task - its id is not in the set.
C37_PendingAreWaiting ==
    \A c \in CallIds : c \in pending_requests => InProgress(c)

(***************************************************************************)
(* Part 2. client_manager.py : ClaudeClientManager                         *)
(***************************************************************************)
MaxProcs == 2       \* coroutines that may be inside the manager at once
MaxClients == 2     \* ClaudeSDKClient objects constructed in one run
TickStep == 16      \* minutes by which the clock advances in one step
MaxTime == 2 * TickStep
\* __init__(self, max_age_minutes: int = 30)
max_age_minutes == 30

VARIABLES
    clients,        \* self._clients      (dict, insertion ordered)
    options,        \* self._options
    last_access,    \* self._last_access
    now,            \* datetime.now(), in minutes
    procs,          \* the coroutines running manager methods
    sdk,            \* every ClaudeSDKClient constructed so far
    nextClient,     \* identity of the next constructed client
    raised_ops      \* operations that ended by raising KeyError

sessVars == <<clients, options, last_access, now, procs, sdk, nextClient,
              raised_ops>>

Keys == {"a", "b"}
Procs == 1..MaxProcs
ClientIds == 1..MaxClients
Options == {"opts"}

(* A Python dict as the sequence of its items in insertion order. *)
Has(d, k) == \E i \in 1..Len(d) : d[i].k = k
Get(d, k) == d[CHOOSE i \in 1..Len(d) : d[i].k = k].v
Put(d, k, v) ==
    IF Has(d, k)
    THEN [i \in 1..Len(d) |-> IF d[i].k = k THEN [k |-> k, v |-> v] ELSE d[i]]
    ELSE Append(d, [k |-> k, v |-> v])
DelKeep(e, k) == e.k # k
Del(d, k) == SelectSeq(d, LAMBDA e : DelKeep(e, k))
DictKeys(d) == [i \in 1..Len(d) |-> d[i].k]

IdleProc == [op |-> "idle", pc |-> "idle", key |-> "-", client |-> 0, todo |-> <<>>]
\* A client object: the key it was made for, its connection state, how often
\* get_or_create_client returned it (saturating at 2) and the operation
\* whose removal of its key ended the period in which it was returned.
\* stale: it was returned again after that removal.
NoClient == [key |-> "-", state |-> "none", handed |-> 0, retired |-> "no",
             stale |-> FALSE]

SessInit ==
    /\ clients = <<>>
    /\ options = <<>>
    /\ last_access = <<>>
    /\ now = 0
    /\ procs = [p \in Procs |-> IdleProc]
    /\ sdk = [c \in ClientIds |-> NoClient]
    /\ nextClient = 1
    /\ raised_ops = {}

Tick ==
    /\ now + TickStep <= MaxTime
    /\ now' = now + TickStep
    /\ UNCHANGED <<clients, options, last_access, procs, sdk, nextClient,
                   raised_ops>>

Sat2(n) == IF n >= 2 THEN 2 ELSE n + 1

\* client_manager.py:47  "if notebook_path not in self._clients"
NeedsNewClientMut(cl, k) == TRUE
NeedsNewClient(cl, k) == ~Has(cl, k)

(* get_or_create_client, lines 45-50 (up to "await client.connect()") or,  *)
(* for a key already present, lines 45-56.                                 *)
get_or_create_client(p, k, o) ==
    /\ procs[p].op = "idle"
    /\ last_access' = Put(last_access, k, now)
    /\ IF NeedsNewClient(clients, k)
       THEN /\ nextClient <= MaxClients
            /\ sdk' = [sdk EXCEPT ![nextClient] =
                         [key |-> k, state |-> "connecting", handed |-> 0,
                          retired |-> "no", stale |-> FALSE]]
            /\ nextClient' = nextClient + 1
            /\ procs' = [procs EXCEPT ![p] =
                         [op |-> "get", pc |-> "connect", key |-> k,
                          client |-> nextClient, todo |-> <<>>]]
       ELSE /\ sdk' = [sdk EXCEPT ![Get(clients, k)].handed = Sat2(@),
                                  ![Get(clients, k)].stale =
                                      (@ \/ sdk[Get(clients, k)].retired # "no")]
            /\ UNCHANGED <<procs, nextClient>>
    /\ UNCHANGED <<clients, options, now, raised_ops>>

(* "await client.connect()" returns (lines 51-56) or raises.               *)
connect_done(p, ok, o) ==
    /\ procs[p].op = "get" /\ procs[p].pc = "connect"
    /\ LET k == procs[p].key
           c == procs[p].client
       IN IF ok
          THEN /\ clients' = Put(clients, k, c)
               /\ options' = Put(options, k, o)
               /\ sdk' = [sdk EXCEPT ![c].state = "connected", ![c].handed = Sat2(@)]
          ELSE /\ sdk' = [sdk EXCEPT ![c].state = "failed"]
               /\ UNCHANGED <<clients, options>>
    /\ procs' = [procs EXCEPT ![p] = IdleProc]
    /\ UNCHANGED <<last_access, now, nextClient, raised_ops>>

(* The keys of a "for path in ...: await self.close_client(path)" loop that *)
(* are left once the calls returning without an await have been made:       *)
(* close_client does nothing for a key that is not in self._clients.        *)
RECURSIVE SkipAbsent(_, _)
SkipAbsent(todo, cl) ==
    IF todo = <<>> THEN <<>>
    ELSE IF Has(cl, Head(todo)) THEN todo
    ELSE SkipAbsent(Tail(todo), cl)

(* close_client lines 64-67 for the first key of todo that has a client:    *)
(* disconnect() is called on it and awaited.  With nothing to close the     *)
(* operation is over.                                                       *)
StartClose(p, op, todo, cl, sd) ==
    LET rest == SkipAbsent(todo, cl)
    IN IF rest = <<>>
       THEN /\ procs' = [procs EXCEPT ![p] = IdleProc]
            /\ sdk' = sd
       ELSE /\ procs' = [procs EXCEPT ![p] =
                          [op |-> op, pc |-> "disconnect", key |-> Head(rest),
                           client |-> Get(cl, Head(rest)), todo |-> Tail(rest)]]
            /\ sdk' = [sd EXCEPT ![Get(cl, Head(rest))].state =
                          IF @ = "connected" THEN "disconnecting" ELSE @]

close_client(p, k) ==
    /\ procs[p].op = "idle"
    /\ StartClose(p, "close", <<k>>, clients, sdk)
    /\ UNCHANGED <<clients, options, last_access, now, nextClient, raised_ops>>

(* reset_client, lines 104-107: the same test, then close_client.          *)
reset_client(p, k) ==
    /\ procs[p].op = "idle"
    /\ StartClose(p, "reset", IF Has(clients, k) THEN <<k>> ELSE <<>>, clients, sdk)
    /\ UNCHANGED <<clients, options, last_access, now, nextClient, raised_ops>>

\* client_manager.py:79-84  cutoff and the list of inactive paths
IsInactive(t, n) == t < n - max_age_minutes
InactiveKeep(e) == IsInactive(e.v, now)
inactive_paths == DictKeys(SelectSeq(last_access, InactiveKeep))

(* cleanup_inactive, lines 78-88, up to the first awaited disconnect.      *)
cleanup_inactive(p) ==
    /\ procs[p].op = "idle"
    /\ StartClose(p, "cleanup", inactive_paths, clients, sdk)
    /\ UNCHANGED <<clients, options, last_access, now, nextClient, raised_ops>>

(* shutdown, lines 111-116, up to the first awaited disconnect.            *)
shutdown(p) ==
    /\ procs[p].op = "idle"
    /\ StartClose(p, "shutdown", DictKeys(clients), clients, sdk)
    /\ UNCHANGED <<clients, options, last_access, now, nextClient, raised_ops>>

\* client_manager.py:70  "finally:": the three dels run whether or not
\* disconnect() raised
RemovesEntryMut(ok) == ok
RemovesEntry(ok) == TRUE

(* "await ...disconnect()" returns or raises (caught, line 68); then the    *)
(* finally block, lines 71-73: each del raises KeyError for a missing key   *)
(* and skips the dels after it.  The loop of cleanup_inactive / shutdown    *)
(* then goes on with its next path; a KeyError ends cleanup_inactive and    *)
(* close_client, shutdown catches it (line 117).                            *)
disconnect_done(p, ok) ==
    /\ procs[p].pc = "disconnect"
    /\ LET k == procs[p].key
           c == procs[p].client
           op == procs[p].op
           rm == RemovesEntry(ok)
           inC == rm /\ Has(clients, k)
           inO == Has(options, k)
           inL == Has(last_access, k)
           keyError == rm /\ ~(inC /\ inO /\ inL)
           cl2 == IF rm THEN Del(clients, k) ELSE clients
           sd1 == [sdk EXCEPT ![c].state =
                     IF ok \/ @ = "disconnected" THEN "disconnected" ELSE "broken"]
           sd2 == IF inC
                  THEN [x \in ClientIds |->
                          IF sd1[x].key = k /\ sd1[x].handed > 0 /\ sd1[x].retired = "no"
                          THEN [sd1[x] EXCEPT !.retired = op] ELSE sd1[x]]
                  ELSE sd1
       IN /\ clients' = cl2
          /\ options' = IF inC THEN Del(options, k) ELSE options
          /\ last_access' = IF inC /\ inO THEN Del(last_access, k) ELSE last_access
          /\ raised_ops' = IF keyError /\ op # "shutdown"
                           THEN raised_ops \cup {op} ELSE raised_ops
          /\ IF keyError /\ op # "shutdown"
             THEN procs' = [procs EXCEPT ![p] = IdleProc] /\ sdk' = sd2
             ELSE StartClose(p, op, procs[p].todo, cl2, sd2)
    /\ UNCHANGED <<now, nextClient>>

NoneBusy == \A q \in Procs : procs[q].op = "idle"

(* ---------------- properties of client_manager.py ---------------- *)
Live(k) == {c \in ClientIds : sdk[c].key = k /\ sdk[c].state = "connected"
                              /\ sdk[c].handed > 0}
Handed(k) == {c \in ClientIds : sdk[c].key = k /\ sdk[c].handed > 0
                                /\ sdk[c].retired = "no"}

\* C3: get_or_create_client never yields two live (connected, not
\* disconnected) clients for the same key, overlapping calls included.
C3_OneLiveClientPerKey ==
    \A k \in Keys : Cardinality(Live(k)) <= 1

\* C8: with one manager operation at a time, all get_or_create_client calls
\* for a key between two removals of the key return one and the same client,
\* which is the connected client stored under the key; a client is never
\* returned again once reset_client/close_client removed its key, so the
\* call after a reset returns a newly constructed client.
C8_SameClientUntilReset ==
    \A k \in Keys :
        /\ Cardinality(Handed(k)) <= 1
        /\ \A c \in Handed(k) :
              /\ sdk[c].state \in {"connected", "disconnecting"}
              /\ Has(clients, k) /\ Get(clients, k) = c
        /\ \A c \in ClientIds : ~sdk[c].stale

\* C8 witness: a client was returned twice for a key, reset_client removed
\* it, and a different client has since been returned twice for that key.
C8_Witness ==
    \E k \in Keys, c1, c2 \in ClientIds :
        /\ c1 # c2 /\ sdk[c1].key = k /\ sdk[c2].key = k
        /\ sdk[c1].handed = 2 /\ sdk[c1].retired = "reset"
        /\ sdk[c2].handed = 2 /\ sdk[c2].retired = "no"
        /\ sdk[c2].state = "connected" /\ NoneBusy

C10_Step ==
    \A p \in Procs :
        (/\ procs[p].op = "cleanup" /\ procs[p].pc = "disconnect"
         /\ procs'[p] # procs[p]
         /\ Has(last_access, procs[p].key)
         /\ ~Has(last_access', procs[p].key))
            => IsInactive(Get(last_access, procs[p].key), now)

C10_SweepOnlyIdle == [][C10_Step]_sessVars

\* C11: when a shutdown running on its own finishes, no client is stored
\* any more, none is left connected and every client it removed had
\* disconnect() called on it, whichever of those calls raised; shutdown goes
\* on to the next key after a failed disconnect and never raises.
C11_Step ==
    \A p \in Procs :
        (procs[p].op = "shutdown" /\ procs'[p] # procs[p]) =>
            /\ ~Has(clients', procs[p].key) /\ ~Has(options', procs[p].key)
            /\ ~Has(last_access', procs[p].key)
            /\ sdk'[procs[p].client].state \in {"disconnected", "broken"}
            /\ raised_ops' = raised_ops
            /\ procs'[p].op = "idle" =>
                  /\ clients' = <<>> /\ options' = <<>>
                  /\ \A c \in ClientIds :
                        sdk'[c].state \notin {"connected", "disconnecting"}

C11_State ==
    \A c \in ClientIds : sdk[c].retired = "shutdown" =>
        /\ sdk[c].state \in {"disconnected", "broken"}
        /\ \A i \in 1..Len(clients) : clients[i].v # c

C11_ShutdownDrains == []C11_State /\ [][C11_Step]_sessVars

\* C11 witness: shutdown has finished with two clients to close; the
\* disconnect of the first raised, that of the second did not, and both
\* entries are gone.
C11_Witness ==
    /\ NoneBusy /\ clients = <<>> /\ options = <<>>
    /\ \E c1, c2 \in ClientIds :
          /\ c1 < c2
          /\ sdk[c1].retired = "shutdown" /\ sdk[c1].state = "broken"
          /\ sdk[c2].retired = "shutdown" /\ sdk[c2].state = "disconnected"


KeySet(d) == {d[i].k : i \in 1..Len(d)}
\* a client on which disconnect() has been called
DisconnectStarted(c) == sdk[c].state \in {"disconnecting", "disconnected", "broken"}

\* C33: whenever no manager operation is in progress, _clients, _options and
\* _last_access have the same keys - also after a get_or_create_client whose
\* connect() raised.
C33_SameKeys ==
    NoneBusy =>
        /\ KeySet(clients) = KeySet(options)
        /\ KeySet(clients) = KeySet(last_access)

\* C34: every client on which connect() succeeded is stored in _clients
\* under its key, unless disconnect() has been called on it.
C34_NoLeakedClient ==
    \A c \in ClientIds : sdk[c].state = "connected" =>
        /\ Has(clients, sdk[c].key)
        /\ Get(clients, sdk[c].key) = c

\* C35: get_or_create_client never returns a client on which disconnect()
\* has been started.
C35_Step ==
    \A c \in ClientIds :
        sdk'[c].handed > sdk[c].handed => ~DisconnectStarted(c)
C35_NoHandoutWhileClosing == [][C35_Step]_sessVars

\* C36: no close_client call raises, whether called directly, by
\* reset_client or by cleanup_inactive, and whether or not it overlaps
\* another close of the same key.
C36_CloseNeverRaises == raised_ops = {}

(***************************************************************************)
(* Part 3. execute_cell_async.py and execute_all_cells.py                  *)
(***************************************************************************)
MaxCells == 4       \* cells of the notebook
MaxExec == 2        \* executions started in one run
TrackCells == 2     \* cells of the notebooks used with polls and cancellation

VARIABLES
    ycells,                 \* ydoc.ycells: the cells of the shared notebook
    kernel,                 \* the kernel: its execution counter
    kqueue,                 \* execute_requests sent and not yet replied to
    async_executions,       \* _async_executions     (execute_cell_async.py:18)
    async_executions_all,   \* _async_executions_all (execute_all_cells.py:16)
    tasks,                  \* the background task of each execution id
    nextExec,               \* next fresh uuid4
    submitted               \* id -> cell indices whose source was sent

execVars == <<ycells, kernel, kqueue, async_executions, async_executions_all,
              tasks, nextExec, submitted>>

ExecIds == 1..MaxExec
None == -1
KernelIds == {"k1", "stale"}

\* what a cell can be: markdown, or a code cell whose source is empty,
\* prints ("ok") or raises ("fail")
CellKinds == {[cell_type |-> "markdown", source |-> "text"],
              [cell_type |-> "code", source |-> ""],
              [cell_type |-> "code", source |-> "ok"],
              [cell_type |-> "code", source |-> "fail"]}
NewCell(kd) == [cell_type |-> kd.cell_type, source |-> kd.source,
                execution_count |-> 0, outputs |-> <<>>]
Notebooks == UNION {[1..n -> CellKinds] : n \in 1..MaxCells}

\* the iopub outputs the kernel produces for a source
KernelOutputs(src) == IF src = "fail" THEN <<"error">> ELSE <<"stream">>

NoRec == [status |-> "absent", outputs |-> <<>>, cell_index |-> None,
          error |-> "-", kernel_id |-> "-"]
NoRecAll == [status |-> "absent", current_cell_index |-> None, total_cells |-> 0,
             completed_cells |-> 0, failed_cell_index |-> None, error |-> "-",
             kernel_id |-> "-", results |-> <<>>]
NoTask == [pc |-> "none", kind |-> "-", code_cells |-> <<>>, pos |-> 0,
           restart_kernel |-> FALSE, cell_index |-> None, source |-> "-"]

ExecInitWith(nbs) ==
    /\ \E nb \in nbs : ycells = [i \in 1..Len(nb) |-> NewCell(nb[i])]
    /\ kernel = [execution_count |-> 0]
    /\ kqueue = <<>>
    /\ async_executions = [e \in ExecIds |-> NoRec]
    /\ async_executions_all = [e \in ExecIds |-> NoRecAll]
    /\ tasks = [e \in ExecIds |-> NoTask]
    /\ nextExec = 1
    /\ submitted = [e \in ExecIds |-> <<>>]

\* kernel_info['execution_state'] as list_kernels() reports it
execution_state == IF kqueue = <<>> THEN "idle" ELSE "busy"

\* the admission checks shared by both tools: kernel known and not busy
\* (execute_cell_async.py:102-122, execute_all_cells.py:102-123)
AdmittedMut(kernel_id) == kernel_id = "k1"
Admitted(kernel_id) == kernel_id = "k1" /\ execution_state # "busy"

\* execute_cell_async.py:185-192  the record stored under the new id before
\* the background task is created
RunningRecMut(cell_index, kernel_id) == NoRec
RunningRec(cell_index, kernel_id) ==
    [status |-> "running", outputs |-> <<>>, cell_index |-> cell_index,
     error |-> "-", kernel_id |-> kernel_id]

(* ExecuteCellAsyncTool.execute, lines 100-213.  A rejected call returns a  *)
(* failure and changes nothing.                                             *)
execute_cell_async(kernel_id, cell_index) ==
    /\ nextExec <= MaxExec
    /\ IF /\ Admitted(kernel_id)
          /\ cell_index >= 0 /\ cell_index < Len(ycells)
          /\ ycells[cell_index + 1].cell_type = "code"
          /\ ycells[cell_index + 1].source # ""
       THEN /\ async_executions' = [async_executions EXCEPT ![nextExec] =
                  RunningRec(cell_index, kernel_id)]
            /\ tasks' = [tasks EXCEPT ![nextExec] =
                  [pc |-> "spawned", kind |-> "cell", code_cells |-> <<>>, pos |-> 0,
                   restart_kernel |-> FALSE, cell_index |-> cell_index,
                   source |-> ycells[cell_index + 1].source]]
            /\ nextExec' = nextExec + 1
       ELSE UNCHANGED <<async_executions, tasks, nextExec>>
    /\ UNCHANGED <<ycells, kernel, kqueue, async_executions_all, submitted>>

\* execute_all_cells.py:149-160: the (index, source) pairs of the code cells
\* whose source is not empty
IsCodeUnit(e) == e.cell_type = "code" /\ e.source # ""
code_cells_of(doc) ==
    LET all == [i \in 1..Len(doc) |->
                  [idx |-> i - 1, source |-> doc[i].source, cell_type |-> doc[i].cell_type]]
    IN SelectSeq(all, IsCodeUnit)

(* ExecuteAllCellsTool.execute, lines 100-204.                              *)
execute_all_cells(kernel_id, restart_kernel) ==
    /\ nextExec <= MaxExec
    /\ IF Admitted(kernel_id) /\ code_cells_of(ycells) # <<>>
       THEN /\ async_executions_all' = [async_executions_all EXCEPT ![nextExec] =
                  [status |-> "running", current_cell_index |-> None,
                   total_cells |-> Len(code_cells_of(ycells)), completed_cells |-> 0,
                   failed_cell_index |-> None, error |-> "-",
                   kernel_id |-> kernel_id, results |-> <<>>]]
            /\ tasks' = [tasks EXCEPT ![nextExec] =
                  [pc |-> "spawned", kind |-> "all", code_cells |-> code_cells_of(ycells),
                   pos |-> 0, restart_kernel |-> restart_kernel, cell_index |-> None,
                   source |-> "-"]]
            /\ nextExec' = nextExec + 1
       ELSE UNCHANGED <<async_executions_all, tasks, nextExec>>
    /\ UNCHANGED <<ycells, kernel, kqueue, async_executions, submitted>>

(* _execute_async reaches the poll loop of _execute_code: the request is    *)
(* sent (lines 239-312); obtaining the kernel client may raise, which       *)
(* _execute_code re-raises and _execute_async records (lines 266-269).      *)
async_submit(id, fault) ==
    /\ tasks[id].pc = "spawned" /\ tasks[id].kind = "cell"
    /\ IF fault
       THEN /\ async_executions' = [async_executions EXCEPT
                  ![id].status = "error", ![id].error = "transport"]
            /\ tasks' = [tasks EXCEPT ![id].pc = "done"]
            /\ UNCHANGED <<kqueue, submitted>>
       ELSE /\ kqueue' = Append(kqueue, id)
            /\ submitted' = [submitted EXCEPT ![id] = Append(@, tasks[id].cell_index)]
            /\ tasks' = [tasks EXCEPT ![id].pc = "polling"]
            /\ UNCHANGED async_executions
    /\ UNCHANGED <<ycells, kernel, async_executions_all, nextExec>>

\* "ydoc.ycells[i]["execution_count"] = n; del outputs[:]; append each output"
WriteCell(doc, i, n, outs) ==
    [doc EXCEPT ![i + 1].execution_count = n, ![i + 1].outputs = outs]

\* execute_cell_async.py:263-264  status and outputs of the record, set one
\* after the other with no await in between
CompletedRecMut(rec, outs) == [rec EXCEPT !.status = "completed"]
CompletedRec(rec, outs) == [rec EXCEPT !.status = "completed", !.outputs = outs]

(* The kernel runs the request at the head of its queue and replies; the    *)
(* poll loop ends and _execute_async goes on to its end (lines 249-269).    *)
(* A fault is an exception inside the poll loop.                            *)
async_complete(id, fault) ==
    /\ tasks[id].pc = "polling" /\ tasks[id].kind = "cell"
    /\ kqueue # <<>> /\ Head(kqueue) = id
    /\ kqueue' = Tail(kqueue)
    /\ kernel' = [kernel EXCEPT !.execution_count = @ + 1]
    /\ tasks' = [tasks EXCEPT ![id].pc = "done"]
    /\ LET ci == tasks[id].cell_index
           outs == KernelOutputs(tasks[id].source)
       IN IF fault \/ ci >= Len(ycells)
          THEN /\ async_executions' = [async_executions EXCEPT
                     ![id].status = "error",
                     ![id].error = IF fault THEN "transport" ELSE "IndexError"]
               /\ UNCHANGED ycells
          ELSE /\ ycells' = WriteCell(ycells, ci, kernel'.execution_count, outs)
               /\ async_executions' = [async_executions EXCEPT
                     ![id] = CompletedRec(@, outs)]
    /\ UNCHANGED <<async_executions_all, nextExec, submitted>>

(* The loop header of _execute_all_async for the unit at position pos:      *)
(* current_cell_index is set and the unit's source is sent (lines 235-247,  *)
(* 310-329).                                                                *)
SubmitUnit(id, recs, pos) ==
    LET unit == tasks[id].code_cells[pos]
    IN /\ async_executions_all' = [recs EXCEPT ![id].current_cell_index = unit.idx]
       /\ kqueue' = Append(IF kqueue # <<>> /\ Head(kqueue) = id
                           THEN Tail(kqueue) ELSE kqueue, id)
       /\ submitted' = [submitted EXCEPT ![id] = Append(@, unit.idx)]
       /\ tasks' = [tasks EXCEPT ![id].pc = "polling", ![id].pos = pos]

\* execute_all_cells.py:225  "if restart_kernel:"
RestartsFirstMut(task) == FALSE
RestartsFirst(task) == task.restart_kernel

(* _execute_all_async starts: lines 225-229 with restart_kernel, else the   *)
(* first unit.                                                              *)
batch_start(id) ==
    /\ tasks[id].pc = "spawned" /\ tasks[id].kind = "all"
    /\ IF RestartsFirst(tasks[id])
       THEN /\ tasks' = [tasks EXCEPT ![id].pc = "restarting"]
            /\ UNCHANGED <<async_executions_all, kqueue, submitted>>
       ELSE SubmitUnit(id, async_executions_all, 1)
    /\ UNCHANGED <<ycells, kernel, async_executions, nextExec>>

(* "await kernel_manager.restart_kernel(kernel_id)" returns and the task    *)
(* goes to sleep for the settle time (lines 229-231), or it raises and the  *)
(* outer handler records the failure (lines 292-295).  A restarted kernel   *)
(* counts its executions from zero and has dropped the requests it held.    *)
batch_restarted(id, ok) ==
    /\ tasks[id].pc = "restarting"
    /\ kqueue = <<>>
    /\ IF ok
       THEN /\ kernel' = [kernel EXCEPT !.execution_count = 0]
            /\ tasks' = [tasks EXCEPT ![id].pc = "settling"]
            /\ UNCHANGED async_executions_all
       ELSE /\ async_executions_all' = [async_executions_all EXCEPT
                  ![id].status = "error", ![id].error = "restart failed"]
            /\ tasks' = [tasks EXCEPT ![id].pc = "done"]
            /\ UNCHANGED kernel
    /\ UNCHANGED <<ycells, kqueue, submitted, async_executions, nextExec>>

(* "await asyncio.sleep(2)" is over (line 231): the loop is entered and the *)
(* first unit is sent (lines 235-247).                                      *)
batch_settled(id) ==
    /\ tasks[id].pc = "settling"
    /\ SubmitUnit(id, async_executions_all, 1)
    /\ UNCHANGED <<ycells, kernel, async_executions, nextExec>>

\* execute_all_cells.py:262  any(o.get("output_type") == "error" ...)
HasErrorMut(outs) == \E i \in 1..Len(outs) : outs[i] = "stderr"
HasError(outs) == \E i \in 1..Len(outs) : outs[i] = "error"

\* execute_all_cells.py:278  the "return" that ends the loop at a failed unit
HaltsAfterErrorMut == FALSE
HaltsAfterError == TRUE

\* execute_all_cells.py:235, 287-290  the for loop has run through all of
\* code_cells: the unit at position pos (from 1) of n was the last one
LoopExhaustedMut(pos, n) == pos + 1 >= n
LoopExhausted(pos, n) == pos = n

\* execute_all_cells.py:250-253  max_count over the code cells of the document
RECURSIVE MaxCount(_, _)
MaxCount(doc, n) ==
    IF n = 0 THEN 0
    ELSE LET m == MaxCount(doc, n - 1)
         IN IF doc[n].cell_type = "code" /\ doc[n].execution_count > m
            THEN doc[n].execution_count ELSE m

\* execute_all_cells.py:264-270  "results.append({...})" and
\* "completed_cells += 1", with no await in between
RecordResultMut(rec, result) == [rec EXCEPT !.completed_cells = @ + 1]
RecordResult(rec, result) ==
    [rec EXCEPT !.results = Append(@, result), !.completed_cells = @ + 1]

\* check_all_cells_status.py:91, 109  "int((completed_cells / total_cells) * 100)"
\* (for the small counts used here the float quotient truncates to the
\* integer quotient)
progress_pct(rec) == (rec.completed_cells * 100) \div rec.total_cells

(* The kernel replies to the unit in flight and the loop body runs to the   *)
(* next await (lines 249-290): document update, result, counters, then      *)
(* either the halt at a failed unit, the next unit, or completion.  A fault *)
(* inside _execute_code is swallowed there and comes back as one stderr     *)
(* stream output (lines 401-407).                                           *)
batch_unit_done(id, fault) ==
    /\ tasks[id].pc = "polling" /\ tasks[id].kind = "all"
    /\ kqueue # <<>> /\ Head(kqueue) = id
    /\ kernel' = [kernel EXCEPT !.execution_count = @ + 1]
    /\ LET pos == tasks[id].pos
           unit == tasks[id].code_cells[pos]
           outs == IF fault THEN <<"stderr">> ELSE KernelOutputs(unit.source)
           rec == async_executions_all[id]
           has_error == HasError(outs)
           rec1 == RecordResult(rec, [cell_index |-> unit.idx,
                                      success |-> ~has_error,
                                      outputs |-> outs])
           rec2 == IF has_error
                   THEN [rec1 EXCEPT !.status = "error",
                                     !.failed_cell_index = unit.idx,
                                     !.error = "Cell execution failed with error"]
                   ELSE rec1
           last == LoopExhausted(pos, Len(tasks[id].code_cells))
       IN IF unit.idx >= Len(ycells)
          THEN \* the cell is gone: IndexError, lines 280-285
               /\ async_executions_all' = [async_executions_all EXCEPT
                     ![id].status = "error", ![id].failed_cell_index = unit.idx,
                     ![id].error = "IndexError"]
               /\ tasks' = [tasks EXCEPT ![id].pc = "done"]
               /\ kqueue' = Tail(kqueue)
               /\ UNCHANGED <<ycells, submitted>>
          ELSE /\ ycells' = WriteCell(ycells, unit.idx,
                                      MaxCount(ycells, Len(ycells)) + 1, outs)
               /\ IF has_error /\ HaltsAfterError
                  THEN /\ async_executions_all' =
                              [async_executions_all EXCEPT ![id] = rec2]
                       /\ tasks' = [tasks EXCEPT ![id].pc = "done"]
                       /\ kqueue' = Tail(kqueue)
                       /\ UNCHANGED submitted
                  ELSE IF last
                  THEN /\ async_executions_all' = [async_executions_all EXCEPT ![id] =
                              [rec2 EXCEPT !.status = "completed",
                                           !.current_cell_index = None]]
                       /\ tasks' = [tasks EXCEPT ![id].pc = "done"]
                       /\ kqueue' = Tail(kqueue)
                       /\ UNCHANGED submitted
                  ELSE SubmitUnit(id, [async_executions_all EXCEPT ![id] = rec2],
                                  pos + 1)
    /\ UNCHANGED <<async_executions, nextExec>>

(***************************************************************************)
(* manipulation/insert_cell.py, manipulation/delete_cell.py : edits of the *)
(* shared document made while executions are in flight                     *)
(***************************************************************************)
\* the cells an edit inserts
EditKinds == {[cell_type |-> "markdown", source |-> "text"],
              [cell_type |-> "code", source |-> "ok"]}

(* InsertCellTool.execute (insert_cell.py:123-141): out of range is a       *)
(* failure, else the new cell is inserted at cell_index.                    *)
insert_cell(cell_index, kd) ==
    /\ Len(ycells) < TrackCells + 1
    /\ IF cell_index < 0 \/ cell_index > Len(ycells)
       THEN UNCHANGED ycells
       ELSE ycells' = SubSeq(ycells, 1, cell_index) \o <<NewCell(kd)>>
                      \o SubSeq(ycells, cell_index + 1, Len(ycells))
    /\ UNCHANGED <<kernel, kqueue, async_executions, async_executions_all, tasks,
                   nextExec, submitted>>

(* DeleteCellTool.execute (delete_cell.py:103-119): ydoc.ycells.pop.        *)
delete_cell(cell_index) ==
    /\ IF cell_index < 0 \/ cell_index >= Len(ycells)
       THEN UNCHANGED ycells
       ELSE ycells' = SubSeq(ycells, 1, cell_index)
                      \o SubSeq(ycells, cell_index + 2, Len(ycells))
    /\ UNCHANGED <<kernel, kqueue, async_executions, async_executions_all, tasks,
                   nextExec, submitted>>

(***************************************************************************)
(* check_execution_status.py, check_all_cells_status.py and the            *)
(* cancellation of a background task                                       *)
(***************************************************************************)
VARIABLES
    poll            \* what the last status poll returned

trackVars == <<poll>>

NoPoll == [tool |-> "-", id |-> 0, success |-> FALSE, status |-> "-",
           raised |-> FALSE, outputs |-> <<>>, error |-> "-"]
TrackInit == poll = NoPoll

\* check_execution_status.py:70  "if execution_id not in _async_executions"
\* (check_all_cells_status.py:70 likewise)
NotInRegistryMut(reg, id) == FALSE
NotInRegistry(reg, id) == reg[id].status = "absent"

\* check_execution_status.py:76-101 and check_all_cells_status.py:76-113
\* read the record; the registry is as before
AfterPollMut(reg, id, none) ==
    IF reg[id].status \in {"completed", "error"}
    THEN [reg EXCEPT ![id] = none] ELSE reg
AfterPoll(reg, id, none) == reg

\* the result of a poll of registry reg for id: the not-found failure
\* (lines 70-74), else the status of the record (lines 76-101); reading a
\* record that does not exist is a KeyError
PollResult(tool, reg, id) ==
    IF NotInRegistry(reg, id)
    THEN [NoPoll EXCEPT !.tool = tool, !.id = id, !.status = "not found"]
    ELSE IF reg[id].status = "absent"
    THEN [NoPoll EXCEPT !.tool = tool, !.id = id, !.raised = TRUE]
    ELSE [NoPoll EXCEPT !.tool = tool, !.id = id, !.success = TRUE,
                        !.status = reg[id].status,
                        \* check_execution_status.py:88-89
                        !.outputs = IF tool = "cell" /\ reg[id].status = "completed"
                                    THEN reg[id].outputs ELSE <<>>,
                        \* check_execution_status.py:93-94
                        !.error = IF reg[id].status = "error"
                                  THEN reg[id].error ELSE "-"]

(* CheckExecutionStatusTool.execute, lines 62-101.                          *)
check_execution_status(id) ==
    /\ poll' = PollResult("cell", async_executions, id)
    /\ async_executions' = AfterPoll(async_executions, id, NoRec)
    /\ UNCHANGED <<ycells, kernel, kqueue, async_executions_all, tasks, nextExec,
                   submitted>>

(* CheckAllCellsStatusTool.execute, lines 62-113.                           *)
check_all_cells_status(id) ==
    /\ poll' = PollResult("all", async_executions_all, id)
    /\ async_executions_all' = AfterPoll(async_executions_all, id, NoRecAll)
    /\ UNCHANGED <<ycells, kernel, kqueue, async_executions, tasks, nextExec,
                   submitted>>

\* execute_all_cells.py:280, 292  "except Exception": asyncio.CancelledError
\* derives from BaseException and passes through both handlers
CatchesCancelledMut == TRUE
CatchesCancelled == FALSE

(* The background task of id is cancelled while suspended at an await       *)
(* (execute_all_cells.py:229, 231, 242; execute_cell_async.py:242):         *)
(* CancelledError is raised there and ends the task.                        *)
cancel_task(id) ==
    /\ tasks[id].pc \in {"spawned", "restarting", "settling", "polling"}
    /\ tasks' = [tasks EXCEPT ![id].pc = "cancelled"]
    /\ IF CatchesCancelled
       THEN /\ async_executions' = [async_executions EXCEPT ![id] =
                  IF tasks[id].kind = "cell"
                  THEN [@ EXCEPT !.status = "error", !.error = "cancelled"] ELSE @]
            /\ async_executions_all' = [async_executions_all EXCEPT ![id] =
                  IF tasks[id].kind = "all"
                  THEN [@ EXCEPT !.status = "error", !.error = "cancelled"] ELSE @]
       ELSE UNCHANGED <<async_executions, async_executions_all>>
    /\ UNCHANGED <<ycells, kernel, kqueue, nextExec, submitted, poll>>

(* The kernel finishes a request whose task is gone; nobody reads the reply. *)
kernel_reply_dropped ==
    /\ kqueue # <<>> /\ tasks[Head(kqueue)].pc = "cancelled"
    /\ kqueue' = Tail(kqueue)
    /\ kernel' = [kernel EXCEPT !.execution_count = @ + 1]
    /\ UNCHANGED <<ycells, async_executions, async_executions_all, tasks, nextExec,
                   submitted, poll>>

(***************************************************************************)
(* execute_cell.py : the synchronous ExecuteCellTool                       *)
(***************************************************************************)
MaxSync == 2        \* synchronous calls made in one run
MaxTimeout == 2     \* largest timeout_seconds, in clock steps
MaxOutputs == 2     \* outputs the kernel publishes before its reply

VARIABLES
    sync,           \* the calls of ExecuteCellTool.execute
    nextSync        \* number of the next call

syncVars == <<sync, nextSync>>

SyncIds == 1..MaxSync
\* the execute_request of a synchronous call, as held by the kernel
SyncReq == 0
NoSyncRet == [success |-> FALSE, error |-> "-", outputs |-> <<>>]
NoSync == [pc |-> "none", cell_index |-> None, source |-> "-", timeout |-> 0,
           elapsed |-> 0, outputs |-> <<>>, expired |-> FALSE, ret |-> NoSyncRet]
SyncInit ==
    /\ sync = [c \in SyncIds |-> NoSync]
    /\ nextSync = 1

\* execute_cell.py:293-297  what _execute_code returns on timeout: a list
\* holding one stderr stream output
TimeoutReturn(timeout) == <<"[TIMEOUT]">>
\* execute_cell.py:370  "return (execution_count, outputs)"
NormalReturn(execution_count, outputs) == <<execution_count, outputs>>
\* execute_cell.py:182  "execution_count, outputs = await self._execute_code("
\* succeeds for a sequence of two items and raises ValueError otherwise
Unpacks(returned) == Len(returned) = 2

(* ExecuteCellTool.execute, lines 79-179 and _execute_code up to the poll   *)
(* loop (lines 235-280): the checks, then the request is sent.              *)
execute_cell(kernel_id, cell_index, timeout) ==
    /\ nextSync <= MaxSync
    /\ nextSync' = nextSync + 1
    /\ IF /\ Admitted(kernel_id)
          /\ cell_index >= 0 /\ cell_index < Len(ycells)
          /\ ycells[cell_index + 1].cell_type = "code"
          /\ ycells[cell_index + 1].source # ""
       THEN /\ sync' = [sync EXCEPT ![nextSync] =
                  [NoSync EXCEPT !.pc = "polling", !.cell_index = cell_index,
                                 !.source = ycells[cell_index + 1].source,
                                 !.timeout = timeout]]
            /\ kqueue' = Append(kqueue, SyncReq)
       ELSE /\ sync' = [sync EXCEPT ![nextSync] =
                  [NoSync EXCEPT !.pc = "done", !.ret.error = "rejected"]]
            /\ UNCHANGED kqueue
    /\ UNCHANGED <<ycells, kernel, async_executions, async_executions_all, tasks,
                   nextExec, submitted>>

(* The poll returns an IOPub message of the request: one more output        *)
(* (lines 301-346).                                                         *)
sync_output(c) ==
    /\ sync[c].pc = "polling" /\ sync[c].elapsed < sync[c].timeout
    /\ Len(sync[c].outputs) < MaxOutputs
    /\ sync' = [sync EXCEPT ![c].outputs = Append(@, "stream")]
    /\ UNCHANGED <<nextSync, execVars>>

(* The poll returns without events after its timeout (lines 300-304).       *)
sync_elapse(c) ==
    /\ sync[c].pc = "polling" /\ sync[c].elapsed < sync[c].timeout
    /\ sync' = [sync EXCEPT ![c].elapsed = @ + 1]
    /\ UNCHANGED <<nextSync, execVars>>

(* What execute makes of the value _execute_code returned (lines 182-215):  *)
(* the document update and the success result, or the failure result built  *)
(* from the exception of the unpacking.                                     *)
SyncFinish(c, returned, expired) ==
    IF Unpacks(returned)
    THEN /\ ycells' = WriteCell(ycells, sync[c].cell_index, returned[1], returned[2])
         /\ sync' = [sync EXCEPT ![c].pc = "done", ![c].expired = expired,
                                 ![c].ret = [success |-> TRUE, error |-> "-",
                                             outputs |-> returned[2]]]
    ELSE /\ sync' = [sync EXCEPT ![c].pc = "done", ![c].expired = expired,
                                 ![c].ret = [success |-> FALSE, error |-> "ValueError",
                                             outputs |-> <<>>]]
         /\ UNCHANGED ycells

(* The shell reply arrives in time (lines 349-370), with or without an      *)
(* execution_count (line 367: RuntimeError, caught at line 208).            *)
sync_reply(c, has_count) ==
    /\ sync[c].pc = "polling" /\ sync[c].elapsed < sync[c].timeout
    /\ kqueue # <<>> /\ Head(kqueue) = SyncReq
    /\ kqueue' = Tail(kqueue)
    /\ kernel' = [kernel EXCEPT !.execution_count = @ + 1]
    /\ IF has_count
       THEN SyncFinish(c, NormalReturn(kernel'.execution_count,
                                       sync[c].outputs \o KernelOutputs(sync[c].source)),
                       FALSE)
       ELSE /\ sync' = [sync EXCEPT ![c].pc = "done",
                                    ![c].ret.error = "RuntimeError"]
            /\ UNCHANGED ycells
    /\ UNCHANGED <<nextSync, async_executions, async_executions_all, tasks,
                   nextExec, submitted>>

(* No reply by the time the timeout has run out: "if remaining_ms <= 0"     *)
(* (lines 290-297).                                                         *)
sync_timeout(c) ==
    /\ sync[c].pc = "polling" /\ sync[c].elapsed >= sync[c].timeout
    /\ SyncFinish(c, TimeoutReturn(sync[c].timeout), TRUE)
    /\ UNCHANGED <<nextSync, kernel, kqueue, async_executions,
                   async_executions_all, tasks, nextExec, submitted>>

(* ---------------- properties of the execution registries ---------------- *)
ContainsError(outs) == \E i \in 1..Len(outs) : outs[i] = "error"
\* position (from 1) of the first unit of batch id whose outputs hold an error
IsFirstFailed(id, k) ==
    /\ k \in 1..Len(async_executions_all[id].results)
    /\ ContainsError(async_executions_all[id].results[k].outputs)
    /\ \A j \in 1..(k - 1) : ~ContainsError(async_executions_all[id].results[j].outputs)
UnitIndices(id, n) == [j \in 1..n |-> tasks[id].code_cells[j].idx]

\* C1 (as stated): if unit k (0-based) is the first unit of a batch whose
\* outputs contain an error output, the batch has ended with status "error",
\* completed_cells = k+1, failed_cell_index = k, and exactly the units 0..k
\* were submitted to the kernel.
C1_AsStated ==
    \A id \in ExecIds : \A k \in 1..MaxCells : IsFirstFailed(id, k) =>
        /\ async_executions_all[id].status = "error"
        /\ tasks[id].pc = "done"
        /\ async_executions_all[id].completed_cells = k
        /\ async_executions_all[id].failed_cell_index = k - 1
        /\ submitted[id] = UnitIndices(id, k)

\* C1 (amended): the same, with failed_cell_index being the notebook index
\* of unit k (the position of its cell among all cells of the document),
\* which is k only when no markdown or empty cell comes before it.
C1_FailFast ==
    \A id \in ExecIds : \A k \in 1..MaxCells : IsFirstFailed(id, k) =>
        /\ async_executions_all[id].status = "error"
        /\ tasks[id].pc = "done"
        /\ async_executions_all[id].completed_cells = k
        /\ async_executions_all[id].failed_cell_index = tasks[id].code_cells[k].idx
        /\ (tasks[id].code_cells[k].idx = k - 1) =
              (\A i \in 1..k : IsCodeUnit(ycells[i]))
        /\ submitted[id] = UnitIndices(id, k)

\* C1 witness: the notebook [ok, ok, fails, ok] was run as a batch, which
\* ended with 3 completed units, failed index 2 and the 4th unit never sent.
C1_Witness ==
    \E id \in ExecIds :
        /\ Len(ycells) = 4
        /\ \A i \in 1..4 : ycells[i].cell_type = "code"
                           /\ ycells[i].source = (IF i = 3 THEN "fail" ELSE "ok")
        /\ IsFirstFailed(id, 3)
        /\ async_executions_all[id].status = "error"
        /\ async_executions_all[id].total_cells = 4
        /\ async_executions_all[id].completed_cells = 3
        /\ async_executions_all[id].failed_cell_index = 2
        /\ submitted[id] = <<0, 1, 2>>

\* C2: the status of an execution record only ever goes from running to
\* completed or from running to error (after its creation as running); a
\* record that is completed or error keeps that status in every later step.
StatusStep(old, new) ==
    /\ old \in {"completed", "error"} => new = old
    /\ new # old => \/ old = "absent" /\ new = "running"
                    \/ old = "running" /\ new \in {"completed", "error"}

C2_Step ==
    \A id \in ExecIds :
        /\ StatusStep(async_executions[id].status, async_executions'[id].status)
        /\ StatusStep(async_executions_all[id].status, async_executions_all'[id].status)

C2_TerminalFinal == [][C2_Step]_execVars

\* C2 witness: a batch ended in error, a single-cell execution started after
\* it has completed, and both records hold their terminal status.
C2_Witness ==
    \E a, b \in ExecIds :
        /\ a < b
        /\ async_executions_all[a].status = "error"
        /\ async_executions_all[a].completed_cells >= 2
        /\ async_executions[b].status = "completed"

\* C12: a single-cell execution ends as completed only if the kernel ran
\* the code without an error output and no exception occurred, and ends as
\* error with a message otherwise; a record whose outputs contain an error
\* output is never completed.
C12_CompletedOnlyIfOk ==
    \A id \in ExecIds :
        /\ async_executions[id].status = "completed" =>
              /\ ~ContainsError(async_executions[id].outputs)
              /\ tasks[id].source # "fail"
        /\ async_executions[id].status = "error" =>
              async_executions[id].error # "-"

\* C13: an accepted start stores exactly one record, with status running,
\* under an id that no record had before, leaves every other record as it
\* was, and its background task has not yet taken a step; from then on a
\* poll of that id finds a record.
C13_Step ==
    nextExec' # nextExec =>
        /\ async_executions[nextExec] = NoRec
        /\ async_executions_all[nextExec] = NoRecAll
        /\ tasks[nextExec] = NoTask /\ tasks'[nextExec].pc = "spawned"
        /\ \/ /\ async_executions'[nextExec].status = "running"
              /\ async_executions_all'[nextExec] = NoRecAll
              /\ tasks'[nextExec].kind = "cell"
           \/ /\ async_executions_all'[nextExec].status = "running"
              /\ async_executions'[nextExec] = NoRec
              /\ tasks'[nextExec].kind = "all"
        /\ \A e \in ExecIds \ {nextExec} :
              /\ async_executions'[e] = async_executions[e]
              /\ async_executions_all'[e] = async_executions_all[e]
              /\ tasks'[e] = tasks[e]

C13_State ==
    \A id \in ExecIds :
        /\ tasks[id].kind = "cell" => async_executions[id].status # "absent"
        /\ tasks[id].kind = "all" => async_executions_all[id].status # "absent"
        /\ id >= nextExec => /\ tasks[id] = NoTask
                             /\ async_executions[id] = NoRec
                             /\ async_executions_all[id] = NoRecAll

C13_StartRegisters == []C13_State /\ [][C13_Step]_execVars

\* C13 witness: two starts were accepted one after the other; both records
\* are running and the task of the second has not taken a step.
C13_Witness ==
    \E a, b \in ExecIds :
        /\ a < b
        /\ async_executions[a].status = "running"
        /\ async_executions_all[b].status = "running"
        /\ tasks[a].pc = "spawned" /\ tasks[b].pc = "spawned"

\* C14: a poll of an id that has no record in the polled registry returns
\* the not-found failure (success false), raises nothing, and leaves both
\* registries and all tasks as they were.
C14_Step ==
    poll' # poll =>
        LET status == IF poll'.tool = "cell"
                      THEN async_executions[poll'.id].status
                      ELSE async_executions_all[poll'.id].status
        IN status = "absent" =>
              /\ poll'.status = "not found"
              /\ ~poll'.success /\ ~poll'.raised
              /\ UNCHANGED <<async_executions, async_executions_all, tasks>>

C14_State == ~poll.raised /\ (poll.status = "not found" => ~poll.success)

C14_UnknownIdIsFailure == []C14_State /\ [][C14_Step]_<<execVars, trackVars, syncVars>>

\* C14 witness: the single-cell poll answered "not found" for the id of a
\* batch that is running.
C14_Witness ==
    /\ poll.tool = "cell" /\ poll.status = "not found" /\ poll.id \in ExecIds
    /\ async_executions_all[poll.id].status = "running"

\* C15: a record that exists changes only in a step of the background task
\* created for its id, and that step changes no other record; a status poll
\* changes no record.
C15_Step ==
    /\ \A id \in ExecIds :
          (\/ async_executions'[id] # async_executions[id]
           \/ async_executions_all'[id] # async_executions_all[id]) =>
             \/ tasks[id] = NoTask /\ nextExec = id /\ nextExec' = id + 1
             \/ /\ tasks[id].pc \in {"spawned", "restarting", "settling", "polling"}
                /\ tasks'[id] # tasks[id]
                /\ poll' = poll
                /\ \A e \in ExecIds \ {id} :
                      /\ tasks'[e] = tasks[e]
                      /\ async_executions'[e] = async_executions[e]
                      /\ async_executions_all'[e] = async_executions_all[e]
    /\ poll' # poll => UNCHANGED <<async_executions, async_executions_all>>

C15_OnlyOwnTaskWrites == [][C15_Step]_<<execVars, trackVars, syncVars>>

\* C15 witness: two executions have run side by side to a terminal status
\* and the last poll read one of them.
C15_Witness ==
    \E a, b \in ExecIds :
        /\ a # b
        /\ async_executions[a].status = "completed"
        /\ async_executions_all[b].status \in {"completed", "error"}
        /\ Len(async_executions_all[b].results) >= 2
        /\ poll.success /\ poll.id = a /\ poll.status = "completed"

\* C18: the step that cancels a batch task changes no field of the batch's
\* record, and the record of a cancelled batch never changes afterwards.
C18_Step ==
    \A id \in ExecIds :
        (tasks[id].kind = "all" /\ tasks'[id].pc = "cancelled") =>
            async_executions_all'[id] = async_executions_all[id]

C18_CancelKeepsRecord == [][C18_Step]_<<execVars, trackVars, syncVars>>

\* C18 witness: a batch was cancelled while its second unit was running;
\* the record still shows running, one completed unit and the current cell.
C18_Witness ==
    \E id \in ExecIds :
        /\ tasks[id].pc = "cancelled" /\ tasks[id].pos = 2
        /\ async_executions_all[id].status = "running"
        /\ async_executions_all[id].completed_cells = 1
        /\ Len(async_executions_all[id].results) = 1
        /\ async_executions_all[id].current_cell_index = tasks[id].code_cells[2].idx

\* C16: when the execution of a unit of a batch raised an exception, the
\* batch has status error with the exception in its error field, the unit
\* is not recorded as a success, and no later unit was submitted.
C16_ExceptionHalts ==
    \A id \in ExecIds :
        \A k \in 1..Len(async_executions_all[id].results) :
            async_executions_all[id].results[k].outputs = <<"stderr">> =>
                /\ async_executions_all[id].status = "error"
                /\ async_executions_all[id].error # "-"
                /\ ~async_executions_all[id].results[k].success
                /\ Len(submitted[id]) = k

\* C17: a batch whose units all succeed eventually has status completed;
\* and a batch with status completed has completed_cells = total_cells, no
\* failed_cell_index and, for each of its units in order, one result marked
\* as success without an error output.
C17_Safe ==
    \A id \in ExecIds : async_executions_all[id].status = "completed" =>
        /\ async_executions_all[id].completed_cells = async_executions_all[id].total_cells
        /\ async_executions_all[id].failed_cell_index = None
        /\ Len(async_executions_all[id].results) = async_executions_all[id].total_cells
        /\ Len(tasks[id].code_cells) = async_executions_all[id].total_cells
        /\ \A k \in 1..Len(async_executions_all[id].results) :
              /\ async_executions_all[id].results[k].success
              /\ ~ContainsError(async_executions_all[id].results[k].outputs)
              /\ async_executions_all[id].results[k].cell_index =
                    tasks[id].code_cells[k].idx

\* batch id is running (past a requested kernel restart) and none of its
\* units raises in the kernel
AllUnitsSucceed(id) ==
    /\ async_executions_all[id].status = "running"
    /\ \/ tasks[id].pc = "polling"
       \/ tasks[id].pc = "spawned" /\ ~tasks[id].restart_kernel
    /\ \A k \in 1..Len(tasks[id].code_cells) : tasks[id].code_cells[k].source = "ok"

C19_OneExecutionPerKernel ==
    /\ Len(kqueue) <= 1
    /\ Cardinality({id \in ExecIds : tasks[id].pc = "polling"}) <= 1

\* C20: a synchronous execution whose timeout ran out without a reply
\* returns a timeout outcome that carries the outputs collected until then.
C20_TimeoutOutcome ==
    \A c \in SyncIds : sync[c].expired =>
        /\ sync[c].pc = "done"
        /\ sync[c].ret.error = "timeout"
        /\ sync[c].ret.outputs = sync[c].outputs

(***************************************************************************)
(* execute_cell.py / execute_cell_async.py : the poll loop of              *)
(* _execute_code, message by message.  One tick of the clock is half a     *)
(* grace period (50 ms).                                                   *)
(***************************************************************************)
MaxMsgs == 2            \* IOPub messages that arrive during one execution
MaxClock == 5           \* clock ticks one execution is followed for
MaxLoopTimeout == 1     \* largest timeout_seconds of a followed execution
TicksPerSecond == 3     \* clock ticks in one second (scaled down)
grace_period_ms == 2    \* "grace_period_ms = 100", in clock ticks

VARIABLES
    clock,          \* asyncio.get_event_loop().time(), in ticks
    iopub_channel,  \* messages readable on client.iopub_channel
    shell_channel,  \* messages readable on client.shell_channel
    run,            \* the locals of one _execute_code call and what came of it
    arrived,        \* every IOPub message that has arrived, in arrival order
    replies         \* every shell message that has arrived

loopVars == <<clock, iopub_channel, shell_channel, run, arrived, replies>>

\* msg_id['header']['msg_id'] of the execute_request, and the id of a
\* request of some other client of the same kernel
ReqId == "req"
ParentIds == {ReqId, "other"}
MsgTypes == {"stream", "execute_result", "display_data", "error", "status"}
\* the execution counter the kernel gives to the request
ReqCount == kernel.execution_count + 1
\* the cell the followed execution belongs to
RunCell == 0

NoRunRet == [success |-> FALSE, error |-> "-", execution_count |-> None,
             outputs |-> <<>>]
NoRun == [pc |-> "idle", tool |-> "-", timeout_ms |-> 0, start_time |-> 0,
          outputs |-> <<>>, execution_count |-> None,
          execution_done |-> FALSE, execution_done_time |-> None,
          poll_until |-> 0, channels |-> "stopped", interrupts |-> 0,
          timed_out |-> FALSE, returned |-> <<>>, raised |-> "-",
          ret |-> NoRunRet]

LoopInit ==
    /\ clock = 0
    /\ iopub_channel = <<>>
    /\ shell_channel = <<>>
    /\ run = NoRun
    /\ arrived = <<>>
    /\ replies = <<>>

\* execute_cell.py:313, 355  "parent_header.msg_id == msg_id['header']['msg_id']"
MatchesRequestMut(msg) == TRUE
MatchesRequest(msg) == msg.parent = ReqId

\* execute_cell.py:318-346  the message kinds that become an output
IsOutputType(msg_type) ==
    msg_type \in {"stream", "execute_result", "display_data", "error"}

(* execute_cell.py:307-346, execute_cell_async.py:342-380: one message is   *)
(* taken from the IOPub channel.                                            *)
RouteIOPub(r, msg) ==
    IF MatchesRequest(msg) /\ IsOutputType(msg.msg_type)
    THEN [r EXCEPT
            !.outputs = Append(@, [output_type |-> msg.msg_type, n |-> msg.n]),
            !.execution_count =
                IF msg.msg_type = "execute_result" /\ @ = None
                THEN msg.execution_count ELSE @]
    ELSE r

(* execute_cell.py:349-361, execute_cell_async.py:383-394: one message is   *)
(* taken from the shell channel.                                            *)
RouteShell(r, reply, at) ==
    IF MatchesRequest(reply)
    THEN [r EXCEPT !.execution_done = TRUE,
                   !.execution_done_time = at,
                   !.execution_count = IF @ = None THEN reply.execution_count ELSE @]
    ELSE r

\* execute_cell.py:282, 287  the grace period after the reply is still running
GraceRunningMut(r, at) == r.execution_done
GraceRunning(r, at) ==
    r.execution_done /\ at - r.execution_done_time < grace_period_ms

\* execute_cell.py:283-284  "remaining_ms = max(0, timeout_ms - elapsed_ms)"
remaining_ms(r, at) ==
    LET left == r.timeout_ms - (at - r.start_time)
    IN IF left > 0 THEN left ELSE 0

Min(a, b) == IF a <= b THEN a ELSE b

\* execute_cell.py:300 and execute_cell_async.py:335
poll_timeout(r, at) ==
    IF r.tool = "execute_cell"
    THEN IF r.execution_done
         THEN Min(remaining_ms(r, at), grace_period_ms \div 2)
         ELSE remaining_ms(r, at)
    ELSE IF r.execution_done THEN grace_period_ms \div 2 ELSE TicksPerSecond

\* execute_cell.py:367, execute_cell_async.py:400  "if execution_count is None"
MissingCountMut(execution_count) == FALSE
MissingCount(execution_count) == execution_count = None

(* execute_cell.py:363-370: the code after the loop.                        *)
AfterLoop(r) ==
    IF MissingCount(r.execution_count)
    THEN [r EXCEPT !.pc = "raised", !.channels = "stopped",
                   !.raised = "RuntimeError"]
    ELSE [r EXCEPT !.pc = "returned", !.channels = "stopped",
                   !.returned = NormalReturn(r.execution_count, r.outputs)]

(* execute_cell.py:290-297: the timeout branch.  The channels are stopped   *)
(* and a list with one stderr output is returned; the kernel is left alone. *)
TimeoutBranch(r) ==
    [r EXCEPT !.pc = "returned", !.channels = "stopped", !.timed_out = TRUE,
              !.returned = TimeoutReturn(r.timeout_ms)]

(* The loop from its header to the poll (execute_cell.py:282-301,           *)
(* execute_cell_async.py:329-336), evaluated at time at.                *)
LoopTop(r, at) ==
    IF r.execution_done /\ ~GraceRunning(r, at)
    THEN AfterLoop(r)
    ELSE IF r.tool = "execute_cell" /\ remaining_ms(r, at) <= 0
    THEN TimeoutBranch(r)
    ELSE [r EXCEPT !.pc = "poll", !.poll_until = at + poll_timeout(r, at)]

(* What the caller makes of the end of _execute_code: execute               *)
(* (execute_cell.py:182-215) and _execute_async                             *)
(* (execute_cell_async.py:240-269) unpack the pair, write the cell and      *)
(* report success, or report the exception.                                 *)
Conclude(r) ==
    IF r.pc = "poll"
    THEN /\ run' = r
         /\ UNCHANGED ycells
    ELSE IF r.pc = "returned" /\ Unpacks(r.returned)
    THEN /\ ycells' = WriteCell(ycells, RunCell, r.returned[1], r.returned[2])
         /\ run' = [r EXCEPT !.pc = "done",
                             !.ret = [success |-> TRUE, error |-> "-",
                                      execution_count |-> r.returned[1],
                                      outputs |-> r.returned[2]]]
    ELSE /\ run' = [r EXCEPT !.pc = "done",
                             !.ret.error = IF r.pc = "raised" THEN r.raised
                                           ELSE "ValueError"]
         /\ UNCHANGED ycells

(* _execute_code is entered: channels started, request sent, locals set     *)
(* (execute_cell.py:235-280, execute_cell_async.py:289-327), then the loop  *)
(* runs to its first poll.                                                  *)
execute_code(tool, timeout) ==
    /\ run.pc = "idle"
    /\ Conclude(LoopTop([NoRun EXCEPT !.tool = tool,
                                      !.timeout_ms = timeout * TicksPerSecond,
                                      !.start_time = clock,
                                      !.channels = "running"], clock))
    /\ UNCHANGED <<clock, iopub_channel, shell_channel, arrived, replies>>

(* "await poller.poll(poll_timeout)" returns, because a channel is readable *)
(* or because poll_timeout has passed, and the loop body runs to the next   *)
(* poll or to the end of the call (execute_cell.py:301-370).                *)
poll_returns ==
    /\ run.pc = "poll"
    /\ iopub_channel # <<>> \/ shell_channel # <<>> \/ clock >= run.poll_until
    /\ LET r1 == IF iopub_channel # <<>>
                 THEN RouteIOPub(run, Head(iopub_channel)) ELSE run
           r2 == IF shell_channel # <<>>
                 THEN RouteShell(r1, Head(shell_channel), clock) ELSE r1
       IN Conclude(LoopTop(r2, clock))
    /\ iopub_channel' = IF iopub_channel # <<>> THEN Tail(iopub_channel) ELSE <<>>
    /\ shell_channel' = IF shell_channel # <<>> THEN Tail(shell_channel) ELSE <<>>
    /\ UNCHANGED <<clock, arrived, replies>>

(* The kernel publishes a message on IOPub while the channels are open.     *)
iopub_arrives(parent, msg_type) ==
    /\ run.pc = "poll"
    /\ Len(arrived) < MaxMsgs
    /\ LET msg == [parent |-> parent, msg_type |-> msg_type,
                   n |-> Len(arrived) + 1,
                   execution_count |-> IF msg_type = "execute_result"
                                       THEN ReqCount ELSE None]
       IN /\ iopub_channel' = Append(iopub_channel, msg)
          /\ arrived' = Append(arrived,
                               [msg |-> msg, in_grace |-> GraceRunning(run, clock)])
    /\ UNCHANGED <<clock, shell_channel, run, replies, ycells>>

(* The kernel sends a reply on the shell channel: the execute_reply of the  *)
(* request, with or without an execution_count, or the reply to another     *)
(* client's request.                                                        *)
shell_arrives(parent, has_count) ==
    /\ run.pc = "poll"
    /\ \A i \in 1..Len(replies) : replies[i].parent # parent
    /\ LET reply == [parent |-> parent,
                     execution_count |-> IF has_count THEN ReqCount ELSE None]
       IN /\ shell_channel' = Append(shell_channel, reply)
          /\ replies' = Append(replies, reply)
    /\ UNCHANGED <<clock, iopub_channel, run, arrived, ycells>>

(* Time passes while the poll waits with nothing to read.                   *)
LoopTick ==
    /\ run.pc = "poll"
    /\ iopub_channel = <<>> /\ shell_channel = <<>>
    /\ clock < run.poll_until
    /\ clock < MaxClock
    /\ clock' = clock + 1
    /\ UNCHANGED <<iopub_channel, shell_channel, run, arrived, replies, ycells>>

(***************************************************************************)
(* execute_ipython.py and the legacy path of execute_code_with_timeout     *)
(* (execution_helper.py), one loop iteration per step.  The time unit is   *)
(* the length of one empty read.                                           *)
(***************************************************************************)
MaxHelperMsgs == 2      \* IOPub messages the helper reads in one call
max_empty_reads == 20   \* execution_helper.py:317

VARIABLE ipy            \* one call of ExecuteIPythonTool.execute

helperVars == <<ipy>>

NoIpyRet == [success |-> FALSE, error |-> "-", outputs |-> <<>>]
NoIpy == [pc |-> "idle", timeout_seconds |-> 0, elapsed |-> 0,
          empty_reads |-> 0, msgs |-> 0, outputs |-> <<>>,
          code_raised |-> FALSE, timed_out |-> FALSE, faulted |-> FALSE,
          interrupt |-> "none", ret |-> NoIpyRet]

HelperInit == ipy = NoIpy

\* sources given to execute_ipython: none, blank, code that prints
IpyCodes == {"", " ", "ok"}
\* timeouts, the last one longer than max_empty_reads empty reads
HelperTimeouts == {0, 1, max_empty_reads + 1}

\* execute_ipython.py:89-92  whatever the helper returned is a success
IpyResult(outputs) == [success |-> TRUE, error |-> "-", outputs |-> outputs]

(* ExecuteIPythonTool.execute up to the loop of the helper                  *)
(* (execute_ipython.py:64-87, execution_helper.py:291-317).  fault: getting *)
(* the kernel or its client raises, which the helper turns into one output  *)
(* string (lines 384-386).                                                  *)
execute_ipython(kernel_id, code, timeout_seconds, fault) ==
    /\ ipy.pc = "idle"
    /\ IF code = ""
       THEN ipy' = [ipy EXCEPT !.pc = "done",
                               !.ret.error = "kernel_id and code are required"]
       ELSE IF kernel_id # "k1"
       THEN ipy' = [ipy EXCEPT !.pc = "done", !.ret.error = "Kernel not found"]
       ELSE IF code = " "
       THEN ipy' = [ipy EXCEPT !.pc = "done", !.ret = IpyResult(<<"[Empty code]">>)]
       ELSE IF fault
       THEN ipy' = [ipy EXCEPT !.pc = "done", !.faulted = TRUE,
                               !.ret = IpyResult(<<"[ERROR]">>)]
       ELSE ipy' = [ipy EXCEPT !.pc = "loop", !.timeout_seconds = timeout_seconds]

\* execution_helper.py:382  "return outputs if outputs else ["[No output]"]"
HelperReturn(outputs) == IF outputs # <<>> THEN outputs ELSE <<"[No output]">>

(* The loop header finds the timeout exceeded (execution_helper.py:321-330):*)
(* the kernel is interrupted, a failure of the interrupt is logged, and one *)
(* string is returned.                                                      *)
helper_timeout(interrupt_ok) ==
    /\ ipy.pc = "loop"
    /\ ipy.elapsed > ipy.timeout_seconds
    /\ ipy' = [ipy EXCEPT !.pc = "done", !.timed_out = TRUE,
                          !.interrupt = IF interrupt_ok THEN "ok" ELSE "failed",
                          !.ret = IpyResult(<<"[TIMEOUT ERROR]">>)]

(* max_empty_reads reads in a row found nothing                             *)
(* (execution_helper.py:333-336, 379-382).                                  *)
helper_gives_up ==
    /\ ipy.pc = "loop"
    /\ ipy.elapsed <= ipy.timeout_seconds
    /\ ipy.empty_reads >= max_empty_reads
    /\ ipy' = [ipy EXCEPT !.pc = "done", !.ret = IpyResult(HelperReturn(ipy.outputs))]

\* execution_helper.py:355-367  the string an IOPub message becomes
HelperOutput(msg_type) == IF msg_type = "error" THEN "[ERROR]" ELSE "text"

(* get_iopub_msg returns a message (execution_helper.py:341-371).           *)
helper_reads(parent, msg_type, idle) ==
    /\ ipy.pc = "loop"
    /\ ipy.elapsed <= ipy.timeout_seconds
    /\ ipy.empty_reads < max_empty_reads
    /\ ipy.msgs < MaxHelperMsgs
    /\ LET got == [ipy EXCEPT !.msgs = @ + 1, !.empty_reads = 0]
       IN IF parent # ReqId
          THEN ipy' = got
          ELSE IF IsOutputType(msg_type)
          THEN ipy' = [got EXCEPT !.outputs = Append(@, HelperOutput(msg_type)),
                                  !.code_raised = @ \/ msg_type = "error"]
          ELSE IF idle
          THEN ipy' = [got EXCEPT !.pc = "done",
                                  !.ret = IpyResult(HelperReturn(ipy.outputs))]
          ELSE ipy' = got

(* get_iopub_msg times out: Empty is raised, then the sleep                 *)
(* (execution_helper.py:373-376).                                           *)
helper_empty_read ==
    /\ ipy.pc = "loop"
    /\ ipy.elapsed <= ipy.timeout_seconds
    /\ ipy.empty_reads < max_empty_reads
    /\ ipy' = [ipy EXCEPT !.empty_reads = @ + 1, !.elapsed = @ + 1]

(***************************************************************************)
(* agent/tools_registry.py : register_tool and the executor it builds      *)
(***************************************************************************)
VARIABLES
    tool_instances,     \* _tool_instances: the names registered
    tool_call           \* the last call of a tool_executor and its outcome

toolVars == <<tool_instances, tool_call>>

ToolNames == {"execute_cell", "execute_ipython", "list_kernels"}
\* what tool_instance.execute does: return a result, or raise
ToolReturns == {"success", "failure", "not a dict"}
\* classes derived from Exception, and one that is not
ExceptionClasses == {"Exception", "ValueError", "TypeError"}
ToolRaises == ExceptionClasses \cup {"CancelledError"}

NoToolCall == [name |-> "-", does |-> "-", logged |-> FALSE, raised |-> "-",
               envelope |-> [content |-> <<>>]]

ToolInit ==
    /\ tool_instances = {}
    /\ tool_call = NoToolCall

(* register_tool (tools_registry.py:28-97)                                  *)
register_tool(name) ==
    /\ name \notin tool_instances
    /\ tool_instances' = tool_instances \cup {name}
    /\ UNCHANGED tool_call

\* tools_registry.py:73  "except Exception as e"
CaughtMut(exc) == exc = "Exception"
Caught(exc) == exc \in ExceptionClasses

\* tools_registry.py:65-72 and 74-82
ResultEnvelope(result) ==
    [content |-> <<[type |-> "text", text |-> result]>>]
ErrorEnvelope(exc) ==
    [content |-> <<[type |-> "text", text |-> "Error executing tool"]>>,
     isError |-> TRUE]

(* tool_executor (tools_registry.py:40-82), with or without a serverapp to  *)
(* log to.                                                                  *)
tool_executor(name, does, serverapp) ==
    /\ name \in tool_instances
    /\ tool_call' =
          IF does \in ToolReturns
          THEN [NoToolCall EXCEPT !.name = name, !.does = does,
                                  !.logged = serverapp,
                                  !.envelope = ResultEnvelope(does)]
          ELSE IF Caught(does)
          THEN [NoToolCall EXCEPT !.name = name, !.does = does,
                                  !.logged = serverapp,
                                  !.envelope = ErrorEnvelope(does)]
          ELSE [NoToolCall EXCEPT !.name = name, !.does = does,
                                  !.logged = serverapp, !.raised = does]
    /\ UNCHANGED tool_instances

(***************************************************************************)
(* The value a start request returns                                       *)
(***************************************************************************)
VARIABLE start          \* the result of the last start request

startVars == <<start>>

NoStart == [tool |-> "-", success |-> FALSE, error |-> "-"]
StartInit == start = NoStart

\* execute_cell_async.py:102-179  the checks in the order they are made
CellRejection(kernel_id, cell_index) ==
    IF kernel_id # "k1" THEN "Kernel not found"
    ELSE IF execution_state = "busy" THEN "Kernel is currently busy"
    ELSE IF cell_index < 0 \/ cell_index >= Len(ycells) THEN "out of range"
    ELSE IF ycells[cell_index + 1].cell_type # "code" THEN "not a code cell"
    ELSE IF ycells[cell_index + 1].source = "" THEN "Cell is empty"
    ELSE "-"

\* execute_all_cells.py:102-166
AllRejection(kernel_id) ==
    IF kernel_id # "k1" THEN "Kernel not found"
    ELSE IF execution_state = "busy" THEN "Kernel is currently busy"
    ELSE IF code_cells_of(ycells) = <<>> THEN "No code cells found in notebook"
    ELSE "-"

StartResult(tool, rejection) ==
    [tool |-> tool, success |-> rejection = "-", error |-> rejection]

(* ExecuteCellAsyncTool.execute with the value it returns                   *)
(* (execute_cell_async.py:100-213)                                          *)
start_cell(kernel_id, cell_index) ==
    /\ execute_cell_async(kernel_id, cell_index)
    /\ start' = StartResult("execute_cell_async", CellRejection(kernel_id, cell_index))

(* ExecuteAllCellsTool.execute with the value it returns                    *)
(* (execute_all_cells.py:100-204)                                           *)
start_all(kernel_id, restart_kernel) ==
    /\ execute_all_cells(kernel_id, restart_kernel)
    /\ start' = StartResult("execute_all_cells", AllRejection(kernel_id))

(* ---------------- properties of the poll loop ---------------- *)
\* C21: when the timeout expires before the reply arrives, the kernel is
\* sent an interrupt before the timeout result is returned.
C21_InterruptOnTimeout ==
    run.timed_out /\ ~run.execution_done => run.interrupts > 0

\* C22: an execution whose shell reply was received before the deadline is
\* never reported as timed out, also when the deadline passes during the
\* grace period.
C22_ReplyMeansNoTimeout ==
    run.pc = "done" /\ run.execution_done => ~run.timed_out

\* the IOPub messages taken from the channel so far, in arrival order
Consumed == SubSeq(arrived, 1, Len(arrived) - Len(iopub_channel))
IsRequestOutput(e) ==
    /\ e.msg.parent = "req"
    /\ e.msg.msg_type \in {"stream", "execute_result", "display_data", "error"}
AsOutputs(es) == [i \in 1..Len(es) |-> [output_type |-> es[i].msg.msg_type,
                                        n |-> es[i].msg.n]]
ExpectedOutputs == AsOutputs(SelectSeq(Consumed, IsRequestOutput))
\* the reply to the request has been taken from the shell channel
ReplyTaken ==
    \E i \in 1..Len(replies) - Len(shell_channel) : replies[i].parent = "req"

\* C23: the outputs collected for an execution, and those of its result and
\* of its cell, are the stream, execute_result, display_data and error
\* messages of the request that were read from IOPub, in arrival order; a
\* message of another request or of another kind adds no output, and only
\* the reply to the request marks the execution done.
C23_OutputsAreRequestMessages ==
    /\ run.outputs = ExpectedOutputs
    /\ run.ret.success =>
          /\ run.ret.outputs = ExpectedOutputs
          /\ ycells[RunCell + 1].outputs = ExpectedOutputs
    /\ run.execution_done <=> ReplyTaken

C23_Witness ==
    /\ run.ret.success
    /\ Len(arrived) = 2 /\ iopub_channel = <<>>
    /\ Len(run.ret.outputs) = 1
    /\ \E i \in 1..2 : arrived[i].msg.parent = "other" /\ arrived[i].msg.msg_type = "error"
    /\ \E i \in 1..Len(replies) : replies[i].parent = "other"

(* ---------------- properties of the execution counter ---------------- *)
\* C24: whenever a cell's execution count is written, the value written is
\* the counter the kernel supplied for that request.
C24_Step ==
    \A i \in 1..Len(ycells) :
        ycells'[i].execution_count # ycells[i].execution_count
            => ycells'[i].execution_count = kernel'.execution_count
C24_CounterFromKernel == [][C24_Step]_execVars

\* the reply to the request that was read carried no execution_count
ReplyWithoutCount ==
    \E i \in 1..Len(replies) - Len(shell_channel) :
        replies[i].parent = "req" /\ replies[i].execution_count = None
CellUntouched ==
    ycells[RunCell + 1].execution_count = 0 /\ ycells[RunCell + 1].outputs = <<>>

\* C25 as stated: an execution whose reply carried no execution counter
\* fails, and its cell is left as it was.
C25_AsStated ==
    run.pc = "done" /\ ReplyWithoutCount => ~run.ret.success /\ CellUntouched

\* C25: an execution for which the kernel supplied no execution counter,
\* neither in the reply nor in an execute_result message read before the
\* end of the loop, fails - with the RuntimeError unless the timeout result
\* was returned first - and its cell is left as it was; a successful result
\* carries the counter the kernel supplied.
C25_NoCountIsFatal ==
    /\ run.pc = "done" /\ ReplyWithoutCount
          /\ (\A i \in 1..Len(run.outputs) : run.outputs[i].output_type # "execute_result")
          => /\ ~run.ret.success
             /\ CellUntouched
             /\ (~run.timed_out => run.ret.error = "RuntimeError")
    /\ run.ret.success =>
          /\ run.ret.execution_count = ReqCount
          /\ ycells[RunCell + 1].execution_count = ReqCount

C25_Witness ==
    /\ run.pc = "done" /\ ReplyWithoutCount
    /\ run.ret.error = "RuntimeError"
    /\ Len(run.outputs) = 1

\* C26: each successful execution on a kernel is given, and records, an
\* execution counter greater than every counter recorded by the executions
\* before it.
C26_Step ==
    \A i \in 1..Len(ycells) :
        ycells'[i].outputs # ycells[i].outputs
          \/ ycells'[i].execution_count # ycells[i].execution_count
            => /\ ycells'[i].execution_count > MaxCount(ycells, Len(ycells))
               /\ kernel'.execution_count > MaxCount(ycells, Len(ycells))
C26_CounterIncreases == [][C26_Step]_execVars

(* ---------------- properties of execute_ipython ---------------- *)
\* C27: a call that ended in a timeout or in a transport failure is not
\* reported as a success, and a call whose code raised is.
C27_FailuresAreNotSuccess ==
    ipy.pc = "done" =>
        /\ ipy.timed_out \/ ipy.faulted => ~ipy.ret.success
        /\ ipy.code_raised /\ ~ipy.timed_out /\ ~ipy.faulted => ipy.ret.success

(* ---------------- properties of the start requests ---------------- *)
\* C28: a start request that returns a failure changes nothing - no
\* registry entry, no task, nothing sent to the kernel - and an execution is
\* registered only by a request that returns success.
C28_Step ==
    /\ start' # start /\ ~start'.success => UNCHANGED execVars
    /\ nextExec' # nextExec => start'.success
    /\ start'.success <=> start'.error = "-"
C28_RejectedStartHasNoEffect == [][C28_Step]_<<execVars, startVars>>

C28_Witness ==
    /\ start.error = "Kernel is currently busy"
    /\ nextExec = 2
    /\ tasks[1].pc = "polling"

C30_State ==
    run.pc = "done" /\ run.execution_done /\ run.execution_count # None =>
        /\ clock - run.execution_done_time >= grace_period_ms
        /\ \A i \in 1..Len(arrived) :
              arrived[i].in_grace /\ IsRequestOutput(arrived[i])
                 => \E j \in 1..Len(run.ret.outputs) :
                       run.ret.outputs[j].n = arrived[i].msg.n
C30_Step ==
    /\ ~run.execution_done /\ run'.execution_done
    /\ iopub_channel # <<>> /\ IsRequestOutput([msg |-> Head(iopub_channel)])
    => Len(run'.outputs) = Len(run.outputs) + 1
C30_GracePeriod == []C30_State /\ [][C30_Step]_<<loopVars, execVars>>

(* ---------------- properties of a batch record ---------------- *)
\* C31: every registered batch record has total_cells >= 1 and
\* 0 <= completed_cells <= total_cells, its results list has completed_cells
\* entries which are the results of the first completed_cells units sent, in
\* the order they were sent, and the progress percent computed from it is
\* within 0..100 (its divisor is never zero).
C31_BatchCounters ==
    \A id \in ExecIds :
        LET rec == async_executions_all[id]
        IN rec.status # "absent" =>
             /\ rec.total_cells >= 1
             /\ rec.total_cells = Len(tasks[id].code_cells)
             /\ rec.completed_cells >= 0
             /\ rec.completed_cells <= rec.total_cells
             /\ Len(rec.results) = rec.completed_cells
             /\ rec.completed_cells <= Len(submitted[id])
             /\ \A k \in 1..Len(rec.results) :
                   /\ rec.results[k].cell_index = submitted[id][k]
                   /\ rec.results[k].cell_index = tasks[id].code_cells[k].idx
             /\ progress_pct(rec) \in 0..100

\* C31 witness: a batch of three units with two results, the third in flight.
C31_Witness ==
    \E id \in ExecIds :
        /\ async_executions_all[id].status = "running"
        /\ async_executions_all[id].total_cells = 3
        /\ async_executions_all[id].completed_cells = 2
        /\ progress_pct(async_executions_all[id]) = 66
        /\ Len(submitted[id]) = 3

\* C32: in a batch started with restart_kernel the restart and the settle
\* wait are over before the first unit is sent, and a batch whose restart
\* failed has sent no unit and never will: its task has ended and its record
\* has status 'error', completed_cells 0 and the restart failure as error.
C32_State ==
    \A id \in ExecIds :
        /\ tasks[id].restart_kernel /\ tasks[id].pc \in {"spawned", "restarting", "settling"}
              => submitted[id] = <<>>
        /\ async_executions_all[id].error = "restart failed" =>
              /\ tasks[id].restart_kernel
              /\ tasks[id].pc = "done"
              /\ submitted[id] = <<>>
              /\ async_executions_all[id].status = "error"
              /\ async_executions_all[id].completed_cells = 0
              /\ async_executions_all[id].results = <<>>
C32_Step ==
    \A id \in ExecIds :
        /\ tasks[id].restart_kernel /\ submitted[id] = <<>> /\ submitted'[id] # <<>>
              => tasks[id].pc = "settling"
        /\ tasks'[id].pc = "settling" /\ tasks[id].pc # "settling"
              => tasks[id].pc = "restarting" /\ kernel'.execution_count = 0
        /\ tasks[id].restart_kernel /\ tasks[id].pc = "spawned" /\ tasks'[id].pc # "spawned"
              => tasks'[id].pc \in {"restarting", "cancelled"}
C32_RestartBeforeFirstUnit == []C32_State /\ [][C32_Step]_<<execVars, trackVars>>

\* C32 witness: one batch sent its first unit after restart and settle wait,
\* another one ended with a failed restart.
C32_Witness ==
    \E id, other \in ExecIds :
        /\ tasks[id].restart_kernel /\ submitted[id] # <<>>
        /\ async_executions_all[other].error = "restart failed"
        /\ async_executions_all[other].status = "error"

(* ---------------- properties of a completion seen by a poll ---------------- *)
\* C38: a record becomes 'completed' in the step that writes the execution
\* count and the outputs to the document cell and stores the full outputs
\* of the execution in the record, so a poll that reports 'completed'
\* returns those outputs and finds the task finished; a record with status
\* 'error', and a poll that reports it, carry the error message.
C38_State ==
    \A id \in ExecIds :
        /\ async_executions[id].status = "completed" =>
              /\ tasks[id].pc = "done"
              /\ async_executions[id].outputs = KernelOutputs(tasks[id].source)
              /\ ycells[tasks[id].cell_index + 1].execution_count > 0
        /\ async_executions[id].status = "error" => async_executions[id].error # "-"
C38_Step ==
    /\ \A id \in ExecIds :
          async_executions'[id].status = "completed"
          /\ async_executions[id].status # "completed"
             => LET cell == ycells'[tasks[id].cell_index + 1]
                IN /\ async_executions[id].status = "running"
                   /\ cell.outputs = KernelOutputs(tasks[id].source)
                   /\ cell.execution_count = kernel'.execution_count
                   /\ async_executions'[id].outputs = cell.outputs
    /\ poll' # poll /\ poll'.tool = "cell" =>
          /\ poll'.status = "completed" =>
                /\ async_executions[poll'.id].status = "completed"
                /\ poll'.outputs = KernelOutputs(tasks[poll'.id].source)
                /\ poll'.outputs # <<>>
          /\ poll'.status = "error" => poll'.error # "-"
C38_NoHalfFinishedCompletion ==
    []C38_State /\ [][C38_Step]_<<execVars, trackVars>>

\* C38 witness: a poll reported 'completed' with the outputs of a failing
\* cell while another execution has status 'error'.
C38_Witness ==
    \E other \in ExecIds :
        /\ poll.tool = "cell" /\ poll.status = "completed"
        /\ poll.outputs = <<"error">>
        /\ other # poll.id /\ async_executions[other].status = "error"

(* ---------------- properties of the cell an execution writes ---------------- *)
\* the unit of execution id that is with the kernel: the index captured at
\* the start and the source that was sent
InFlight(id) ==
    IF tasks[id].kind = "cell"
    THEN [idx |-> tasks[id].cell_index, source |-> tasks[id].source]
    ELSE [idx |-> tasks[id].code_cells[tasks[id].pos].idx,
          source |-> tasks[id].code_cells[tasks[id].pos].source]

\* C39: when an asynchronous or batch execution writes execution count and
\* outputs to the document, the cell it writes is a code cell holding the
\* source that was sent to the kernel, also when cells were inserted or
\* deleted while the execution was in flight.
C39_Step ==
    \A id \in ExecIds :
        (tasks[id].pc = "polling" /\ tasks'[id] # tasks[id] /\ ycells' # ycells) =>
            \E i \in 1..Len(ycells) :
                /\ ycells'[i] # ycells[i]
                /\ ycells[i].cell_type = "code"
                /\ ycells[i].source = InFlight(id).source
C39_WritesSubmittedCell == [][C39_Step]_execVars

(* ---------------- progress of the asynchronous poll loop ---------------- *)
\* the reply to the request of the followed execution is on the shell channel
ReplyPending ==
    \E i \in 1..Len(shell_channel) : MatchesRequest(shell_channel[i])

\* the asynchronous execution has been concluded: its record is 'completed'
\* (success) or 'error'
Concluded ==
    /\ run.pc = "done"
    /\ run.ret.success \/ run.ret.error # "-"

\* C40: once the kernel has sent the reply to the request of an asynchronous
\* execution, the poll loop ends and the execution is concluded as completed
\* or as error, whatever messages arrive after the reply (the reply is sent
\* early enough for the grace period to end within the time followed).
C40_ReplyLeadsToEnd ==
    (/\ run.tool = "execute_cell_async" /\ run.pc = "poll"
     /\ ReplyPending
     /\ clock + grace_period_ms <= MaxClock) ~> Concluded

\* C40 witness: an asynchronous execution was concluded although a message
\* of the request arrived within the grace period.
C40_Witness ==
    /\ run.tool = "execute_cell_async" /\ Concluded /\ run.execution_done
    /\ \E i \in 1..Len(arrived) :
          arrived[i].in_grace /\ MatchesRequest(arrived[i].msg)

ioVars == <<loopVars, helperVars, toolVars, startVars>>
IOInit == LoopInit /\ HelperInit /\ ToolInit /\ StartInit

vars == <<delegVars, sessVars, execVars, trackVars, syncVars, ioVars>>

\* any notebook
Init == DelegInit /\ SessInit /\ ExecInitWith(Notebooks) /\ TrackInit /\ SyncInit /\ IOInit
\* one notebook, for the parts that never look at it
InitOneNotebook ==
    DelegInit /\ SessInit /\ TrackInit /\ SyncInit /\ IOInit
    /\ ExecInitWith({<<[cell_type |-> "code", source |-> "ok"]>>})

\* short notebooks, for the registries and their polls
InitTrack ==
    DelegInit /\ SessInit /\ TrackInit /\ SyncInit /\ IOInit
    /\ ExecInitWith({nb \in Notebooks : Len(nb) <= TrackCells})

(* ---------------- next-state relations ---------------- *)
NextDeleg ==
    \/ set_active_websocket /\ UNCHANGED <<sessVars, execVars, trackVars, syncVars, ioVars>>
    \/ clear_active_websocket /\ UNCHANGED <<sessVars, execVars, trackVars, syncVars, ioVars>>
    \/ delegate_to_frontend /\ UNCHANGED <<sessVars, execVars, trackVars, syncVars, ioVars>>
    \/ \E c \in CallIds, ok \in BOOLEAN :
          write_message(c, ok) /\ UNCHANGED <<sessVars, execVars, trackVars, syncVars, ioVars>>
    \/ \E c \in CallIds : wait_for_result(c) /\ UNCHANGED <<sessVars, execVars, trackVars, syncVars, ioVars>>
    \/ \E c \in CallIds : wait_for_timeout(c) /\ UNCHANGED <<sessVars, execVars, trackVars, syncVars, ioVars>>
    \/ \E c \in CallIds : timeout_handler(c) /\ UNCHANGED <<sessVars, execVars, trackVars, syncVars, ioVars>>
    \/ \E id \in {BogusId} \cup {c \in CallIds : c < nextCall}, v \in Results :
          handle_tool_response(id, v) /\ UNCHANGED <<sessVars, execVars, trackVars, syncVars, ioVars>>

\* the same, with tasks that are cancelled while they wait
NextDelegCancel ==
    \/ NextDeleg
    \/ \E c \in CallIds : cancel_call(c) /\ UNCHANGED <<sessVars, execVars, trackVars, syncVars, ioVars>>

NextSession ==
    \/ Tick /\ UNCHANGED <<delegVars, execVars, trackVars, syncVars, ioVars>>
    \/ \E p \in Procs, ok \in BOOLEAN, o \in Options :
          connect_done(p, ok, o) /\ UNCHANGED <<delegVars, execVars, trackVars, syncVars, ioVars>>
    \/ \E p \in Procs, ok \in BOOLEAN :
          disconnect_done(p, ok) /\ UNCHANGED <<delegVars, execVars, trackVars, syncVars, ioVars>>
    \/ \E p \in Procs, k \in Keys, o \in Options :
          get_or_create_client(p, k, o) /\ UNCHANGED <<delegVars, execVars, trackVars, syncVars, ioVars>>
    \/ \E p \in Procs, k \in Keys :
          close_client(p, k) /\ UNCHANGED <<delegVars, execVars, trackVars, syncVars, ioVars>>
    \/ \E p \in Procs, k \in Keys :
          reset_client(p, k) /\ UNCHANGED <<delegVars, execVars, trackVars, syncVars, ioVars>>
    \/ \E p \in Procs : cleanup_inactive(p) /\ UNCHANGED <<delegVars, execVars, trackVars, syncVars, ioVars>>
    \/ \E p \in Procs : shutdown(p) /\ UNCHANGED <<delegVars, execVars, trackVars, syncVars, ioVars>>

\* one manager operation at a time: a new one starts when none is running
NextSessionSeq ==
    \/ Tick /\ UNCHANGED <<delegVars, execVars, trackVars, syncVars, ioVars>>
    \/ \E p \in Procs, ok \in BOOLEAN, o \in Options :
          connect_done(p, ok, o) /\ UNCHANGED <<delegVars, execVars, trackVars, syncVars, ioVars>>
    \/ \E p \in Procs, ok \in BOOLEAN :
          disconnect_done(p, ok) /\ UNCHANGED <<delegVars, execVars, trackVars, syncVars, ioVars>>
    \/ \E p \in Procs, k \in Keys, o \in Options :
          NoneBusy /\ get_or_create_client(p, k, o) /\ UNCHANGED <<delegVars, execVars, trackVars, syncVars, ioVars>>
    \/ \E p \in Procs, k \in Keys :
          NoneBusy /\ close_client(p, k) /\ UNCHANGED <<delegVars, execVars, trackVars, syncVars, ioVars>>
    \/ \E p \in Procs, k \in Keys :
          NoneBusy /\ reset_client(p, k) /\ UNCHANGED <<delegVars, execVars, trackVars, syncVars, ioVars>>
    \/ \E p \in Procs : NoneBusy /\ cleanup_inactive(p) /\ UNCHANGED <<delegVars, execVars, trackVars, syncVars, ioVars>>
    \/ \E p \in Procs : NoneBusy /\ shutdown(p) /\ UNCHANGED <<delegVars, execVars, trackVars, syncVars, ioVars>>

NextExec ==
    \/ \E kid \in KernelIds, ci \in -1..MaxCells :
          execute_cell_async(kid, ci) /\ UNCHANGED <<delegVars, sessVars, trackVars, syncVars, ioVars>>
    \/ \E kid \in KernelIds, rk \in BOOLEAN :
          execute_all_cells(kid, rk) /\ UNCHANGED <<delegVars, sessVars, trackVars, syncVars, ioVars>>
    \/ \E id \in ExecIds, fault \in BOOLEAN :
          async_submit(id, fault) /\ UNCHANGED <<delegVars, sessVars, trackVars, syncVars, ioVars>>
    \/ \E id \in ExecIds, fault \in BOOLEAN :
          async_complete(id, fault) /\ UNCHANGED <<delegVars, sessVars, trackVars, syncVars, ioVars>>
    \/ \E id \in ExecIds : batch_start(id) /\ UNCHANGED <<delegVars, sessVars, trackVars, syncVars, ioVars>>
    \/ \E id \in ExecIds, ok \in BOOLEAN :
          batch_restarted(id, ok) /\ UNCHANGED <<delegVars, sessVars, trackVars, syncVars, ioVars>>
    \/ \E id \in ExecIds : batch_settled(id) /\ UNCHANGED <<delegVars, sessVars, trackVars, syncVars, ioVars>>
    \/ \E id \in ExecIds, fault \in BOOLEAN :
          batch_unit_done(id, fault) /\ UNCHANGED <<delegVars, sessVars, trackVars, syncVars, ioVars>>

\* the executions, with cells inserted into and deleted from the document
\* while a request is with the kernel
NextEdit ==
    \/ NextExec
    \/ \E ci \in -1..(TrackCells + 1), kd \in EditKinds :
          /\ kqueue # <<>>
          /\ insert_cell(ci, kd) /\ UNCHANGED <<delegVars, sessVars, trackVars, syncVars, ioVars>>
    \/ \E ci \in -1..(TrackCells + 1) :
          /\ kqueue # <<>>
          /\ delete_cell(ci) /\ UNCHANGED <<delegVars, sessVars, trackVars, syncVars, ioVars>>

\* the registries with their polls and the cancellation of tasks, on
\* notebooks of up to TrackCells cells
NextTrack ==
    \/ NextExec
    \/ \E id \in ExecIds :
          check_execution_status(id) /\ UNCHANGED <<delegVars, sessVars, syncVars, ioVars>>
    \/ \E id \in ExecIds :
          check_all_cells_status(id) /\ UNCHANGED <<delegVars, sessVars, syncVars, ioVars>>
    \/ \E id \in ExecIds : cancel_task(id) /\ UNCHANGED <<delegVars, sessVars, syncVars, ioVars>>
    \/ kernel_reply_dropped /\ UNCHANGED <<delegVars, sessVars, syncVars, ioVars>>

\* a step of the background task of id
TaskStep(id) ==
    \/ \E fault \in BOOLEAN :
          async_submit(id, fault) /\ UNCHANGED <<delegVars, sessVars, trackVars, syncVars, ioVars>>
    \/ \E fault \in BOOLEAN :
          async_complete(id, fault) /\ UNCHANGED <<delegVars, sessVars, trackVars, syncVars, ioVars>>
    \/ batch_start(id) /\ UNCHANGED <<delegVars, sessVars, trackVars, syncVars, ioVars>>
    \/ \E ok \in BOOLEAN :
          batch_restarted(id, ok) /\ UNCHANGED <<delegVars, sessVars, trackVars, syncVars, ioVars>>
    \/ batch_settled(id) /\ UNCHANGED <<delegVars, sessVars, trackVars, syncVars, ioVars>>
    \/ \E fault \in BOOLEAN :
          batch_unit_done(id, fault) /\ UNCHANGED <<delegVars, sessVars, trackVars, syncVars, ioVars>>

NextSync ==
    \/ \E kid \in KernelIds, ci \in -1..TrackCells, t \in 0..MaxTimeout :
          execute_cell(kid, ci, t) /\ UNCHANGED <<delegVars, sessVars, trackVars, ioVars>>
    \/ \E c \in SyncIds : sync_output(c) /\ UNCHANGED <<delegVars, sessVars, trackVars, ioVars>>
    \/ \E c \in SyncIds : sync_elapse(c) /\ UNCHANGED <<delegVars, sessVars, trackVars, ioVars>>
    \/ \E c \in SyncIds, has_count \in BOOLEAN :
          sync_reply(c, has_count) /\ UNCHANGED <<delegVars, sessVars, trackVars, ioVars>>
    \/ \E c \in SyncIds : sync_timeout(c) /\ UNCHANGED <<delegVars, sessVars, trackVars, ioVars>>

\* the variables of the execution registries other than the document
execRest == <<kernel, kqueue, async_executions, async_executions_all, tasks,
              nextExec, submitted>>
notLoop == <<delegVars, sessVars, execRest, trackVars, syncVars, helperVars,
             toolVars, startVars>>

\* one execution, followed message by message through the poll loop
NextLoop ==
    \/ \E t \in 0..MaxLoopTimeout : execute_code("execute_cell", t) /\ UNCHANGED notLoop
    \/ execute_code("execute_cell_async", 0) /\ UNCHANGED notLoop
    \/ poll_returns /\ UNCHANGED notLoop
    \/ \E p \in ParentIds, mt \in MsgTypes : iopub_arrives(p, mt) /\ UNCHANGED notLoop
    \/ \E p \in ParentIds, has_count \in BOOLEAN :
          shell_arrives(p, has_count) /\ UNCHANGED notLoop
    \/ LoopTick /\ UNCHANGED notLoop

\* an output, an output that carries the counter, and a message that is no
\* output
LiveMsgTypes == {"stream", "execute_result", "status"}

\* one asynchronous execution (no timeout), followed through the poll loop
NextLoopAsync ==
    \/ execute_code("execute_cell_async", 0) /\ UNCHANGED notLoop
    \/ poll_returns /\ UNCHANGED notLoop
    \/ \E p \in ParentIds, mt \in LiveMsgTypes : iopub_arrives(p, mt) /\ UNCHANGED notLoop
    \/ \E p \in ParentIds, has_count \in BOOLEAN :
          shell_arrives(p, has_count) /\ UNCHANGED notLoop
    \/ LoopTick /\ UNCHANGED notLoop

notHelper == <<delegVars, sessVars, execVars, trackVars, syncVars, loopVars,
               toolVars, startVars>>

NextHelper ==
    \/ \E kid \in KernelIds, code \in IpyCodes, t \in HelperTimeouts, fault \in BOOLEAN :
          execute_ipython(kid, code, t, fault) /\ UNCHANGED notHelper
    \/ \E ok \in BOOLEAN : helper_timeout(ok) /\ UNCHANGED notHelper
    \/ helper_gives_up /\ UNCHANGED notHelper
    \/ \E p \in ParentIds, mt \in MsgTypes, idle \in BOOLEAN :
          helper_reads(p, mt, idle) /\ UNCHANGED notHelper
    \/ helper_empty_read /\ UNCHANGED notHelper

notTool == <<delegVars, sessVars, execVars, trackVars, syncVars, loopVars,
             helperVars, startVars>>

NextTool ==
    \/ \E name \in ToolNames : register_tool(name) /\ UNCHANGED notTool
    \/ \E name \in ToolNames, does \in ToolReturns \cup ToolRaises, sa \in BOOLEAN :
          tool_executor(name, does, sa) /\ UNCHANGED notTool

notStart == <<delegVars, sessVars, trackVars, syncVars, loopVars, helperVars,
              toolVars>>

\* start requests with the values they return, and the background tasks
NextStart ==
    \/ \E kid \in KernelIds, ci \in -1..TrackCells :
          start_cell(kid, ci) /\ UNCHANGED notStart
    \/ \E kid \in KernelIds, rk \in BOOLEAN :
          start_all(kid, rk) /\ UNCHANGED notStart
    \/ \E id \in ExecIds, fault \in BOOLEAN :
          async_submit(id, fault) /\ UNCHANGED <<notStart, start>>
    \/ \E id \in ExecIds, fault \in BOOLEAN :
          async_complete(id, fault) /\ UNCHANGED <<notStart, start>>
    \/ \E id \in ExecIds : batch_start(id) /\ UNCHANGED <<notStart, start>>
    \/ \E id \in ExecIds, ok \in BOOLEAN :
          batch_restarted(id, ok) /\ UNCHANGED <<notStart, start>>
    \/ \E id \in ExecIds : batch_settled(id) /\ UNCHANGED <<notStart, start>>
    \/ \E id \in ExecIds, fault \in BOOLEAN :
          batch_unit_done(id, fault) /\ UNCHANGED <<notStart, start>>

SpecDeleg == InitOneNotebook /\ [][NextDeleg]_vars
SpecDelegCancel == InitOneNotebook /\ [][NextDelegCancel]_vars
SpecSession == InitOneNotebook /\ [][NextSession]_vars
SpecSessionSeq == InitOneNotebook /\ [][NextSessionSeq]_vars
SpecExec == Init /\ [][NextExec]_vars
SpecEdit == InitOneNotebook /\ [][NextEdit]_vars
SpecTrack == InitTrack /\ [][NextTrack]_vars
SpecSync == InitTrack /\ [][NextSync]_vars
\* the event loop runs every task that is ready, and the kernel answers
\* every request it was sent
SpecExecLive ==
    InitTrack /\ [][NextExec]_vars /\ \A id \in ExecIds : WF_vars(TaskStep(id))
SpecLoop == InitOneNotebook /\ [][NextLoop]_vars
\* the event loop resumes the task when its poll returns, and time passes
SpecLoopLive ==
    /\ InitOneNotebook /\ [][NextLoopAsync]_vars
    /\ WF_vars(poll_returns /\ UNCHANGED notLoop)
    /\ WF_vars(LoopTick /\ UNCHANGED notLoop)
SpecHelper == InitOneNotebook /\ [][NextHelper]_vars
SpecTool == InitOneNotebook /\ [][NextTool]_vars
SpecStart == InitTrack /\ [][NextStart]_vars
====
